---- MODULE Spec2Model ----
(***************************************************************************)
(* Model of the reading-list page (ReadingLists component), the            *)
(* confirmation provider it awaits, the notification helpers it calls and  *)
(* the API client functions it uses, and of the signup page and the books  *)
(* page.                                                                   *)
(*                                                                         *)
(* A React handler is a closure over the state of the render in which the  *)
(* gesture happened: what it reads after an `await` are the values it      *)
(* captured when it was invoked.  Every request in flight therefore        *)
(* carries the captured values (cLists, cSelected, cListBooks) next to its *)
(* arguments, and the continuation of the handler uses those.              *)
(***************************************************************************)
EXTENDS Integers, Sequences, FiniteSets, TLC

VARIABLES
    db,                 \* backend: the stored reading lists
    nextId,             \* backend: identifier given to the next created list
    mounted,            \* the mount effect (useEffect -> loadLists) has run
    lists,              \* useState lists
    isLoading,          \* useState isLoading
    isModalOpen,        \* useState isModalOpen (create modal)
    newListName,        \* useState newListName
    newListDescription, \* useState newListDescription
    selectedList,       \* useState selectedList (NoList models null)
    listBooks,          \* useState listBooks
    isLoadingBooks,     \* useState isLoadingBooks
    isBooksModalOpen,   \* useState isBooksModalOpen
    removingBookId,     \* useState removingBookId (NoBook models null)
    deletingListId,     \* useState deletingListId (0 models null)
    dialog,             \* ConfirmationProvider's dialog slot
    inflight,           \* requests sent and not yet returned to their handler
    sent,               \* number of requests sent so far
    emitted,            \* notifications emitted by the last step
    resolved,           \* values the confirm() promise was resolved with by the last step
    gesture,            \* the prop the confirmation dialog invoked in the last step
    awaiting,           \* callers suspended in `await confirm(...)`
    created,            \* history: what was typed for each list createList has added
    removed,            \* history: the books removeBookFromList has reported removed, per list
    toastFunctions,     \* errorHandling: the registered surface (FALSE models null)
    invoked,            \* errorHandling: the helper called in the last step, with its argument
    forwarded,          \* errorHandling: calls made to the surface by the last step
    alerted,            \* errorHandling: window.alert texts shown by the last step
    toasts,             \* the toasts rendered by ToastContainer
    timers,             \* ToastItem: the setTimeout each rendered toast holds
    nextToastId,        \* identifier given to the next toast
    call,               \* API client: the function called and the response it gets
    outcome,            \* API client: what the call returned or threw
    session,            \* API client: what fetchAuthSession gives during the call
    request,            \* API client: the fetch the call issued
    signupPage,         \* Signup: its useState values, by name
    auth,               \* Signup: the useAuth call the handler is awaiting
    navigation,         \* Signup: the route change handleSubmit has scheduled or made
    booksPage,          \* Books: its useState values, by name
    shelf,              \* Books: the books the backend gives to getBooks
    fetching,           \* Books: the getBooks call loadBooks is awaiting
    notified            \* Signup and Books: notifications emitted by the last step

vars == <<db, nextId, mounted, lists, isLoading, isModalOpen, newListName,
          newListDescription, selectedList, listBooks, isLoadingBooks,
          isBooksModalOpen, removingBookId, deletingListId, dialog, inflight,
          sent, emitted, resolved, gesture, awaiting, created, removed,
          toastFunctions, invoked,
          forwarded, alerted, toasts, timers, nextToastId, call, outcome,
          session, request, signupPage, auth, navigation, booksPage, shelf,
          fetching, notified>>

\* the state of the notification channel and of the API client under test:
\* the reading-list page leaves it alone
channelVars == <<toastFunctions, invoked, forwarded, alerted, toasts, timers, nextToastId>>

\* the state of the reading-list page, of its backend and of the
\* confirmation provider
pageVars == <<db, nextId, mounted, lists, isLoading, isModalOpen, newListName,
              newListDescription, selectedList, listBooks, isLoadingBooks,
              isBooksModalOpen, removingBookId, deletingListId, dialog, inflight,
              sent, emitted, resolved, gesture, awaiting, created, removed>>

apiVars == <<call, outcome, session, request>>

\* the state of the signup page and of the books page
signupVars == <<signupPage, auth, navigation>>

booksVars == <<booksPage, shelf, fetching>>

formVars == <<signupVars, booksVars, notified>>

offPage == <<channelVars, apiVars, formVars>>

\* ---------------------------------------------------------------- bounds
\* requests the page may send in one run (the mount request included)
MaxRequests == 3

\* callers that may be suspended in `await confirm(...)` at the same time
MaxAwaiting == 2

\* toasts the surface is given in one run
MaxToasts == 2

\* the 5000 ms of a toast's timer, in ticks of the model's clock
ToastTicks == 2

\* ------------------------------------------------------------ value sets
\* what the user types into the name and description fields
Names == {<<>>, <<" ">>, <<" ", "a">>}
Descriptions == {<<>>, <<"d">>}
Catalog == {"b1", "b3"}
NoBook == "none"

ReadingList(id, name, description, bookIds) ==
    [id |-> id, name |-> name, description |-> description, bookIds |-> bookIds]

NoList == ReadingList(0, <<>>, <<>>, <<>>)

InitDb ==
    << ReadingList(1, <<"a">>, <<>>, <<"b1", "b2", "b3">>),
       ReadingList(2, <<"a", "a">>, <<"d">>, <<"b3">>) >>

\* ------------------------------------------------------- sequence helpers
Range(s) == {s[i] : i \in 1..Len(s)}

Ids(s) == {s[i].id : i \in 1..Len(s)}

\* String.prototype.trim on a sequence of characters
IsWhitespace(c) == c = " "

RECURSIVE TrimStart(_)
TrimStart(s) ==
    IF s # <<>> /\ IsWhitespace(Head(s)) THEN TrimStart(Tail(s)) ELSE s

RECURSIVE TrimEnd(_)
TrimEnd(s) ==
    IF s # <<>> /\ IsWhitespace(s[Len(s)])
    THEN TrimEnd(SubSeq(s, 1, Len(s) - 1))
    ELSE s

\* variant: the name is tested without trim()
NoTrim(s) == s

Trim(s) == TrimEnd(TrimStart(s))

\* ---------------------------------------------------------------- requests
Request(rid, op) ==
    [rid |-> rid, op |-> op, listId |-> 0, bookId |-> NoBook, bookIds |-> <<>>,
     name |-> <<>>, description |-> <<>>,
     typedName |-> <<>>, typedDescription |-> <<>>,
     cLists |-> <<>>, cSelected |-> NoList, cListBooks |-> <<>>,
     status |-> 0, statuses |-> <<>>, data |-> <<>>]

CanSend == sent < MaxRequests

FreeRid ==
    CHOOSE i \in 1..(MaxRequests + 1) :
        /\ \A r \in inflight : r.rid # i
        /\ \A j \in 1..(i - 1) : \E r \in inflight : r.rid = j

Pending(r) == r.status = 0 /\ r.statuses = <<>>

Returned(r) == ~Pending(r)

\* no notification helper was called in the last step
NotInvoked == [fn |-> "none", kind |-> "none", text |-> ""]

NoDialog == [isOpen |-> FALSE, listId |-> 0, cLists |-> <<>>, cSelected |-> NoList]

\* -------------------------------------------------------------- API client
\* Each function is modelled by what it does with the response status: the
\* value it returns or the message of the Error it throws.  The backend of
\* this model sends no structured {error} text, so errorData.error is absent.
ResponseOk(status) == status \in 200..299

Returns == [throws |-> FALSE, message |-> ""]

Throws(message) == [throws |-> TRUE, message |-> message]

\* variant: the 404 check is missing, a missing book throws like any failure
getBookThrowsOn404(status, id) ==
    IF ~ResponseOk(status)
    THEN [throws |-> TRUE, message |-> "Failed to fetch book", book |-> NoBook]
    ELSE [throws |-> FALSE, message |-> "", book |-> id]

\* getBook: 404 is "no such book" (null), any other non-2xx throws
getBook(status, id) ==
    IF status = 404 THEN [throws |-> FALSE, message |-> "", book |-> NoBook]
    ELSE IF ~ResponseOk(status)
         THEN [throws |-> TRUE, message |-> "Failed to fetch book", book |-> NoBook]
         ELSE [throws |-> FALSE, message |-> "", book |-> id]

\* Promise.all over bookIds.map(getBook): rejects when any getBook throws
GetBookResults(r) == [i \in 1..Len(r.bookIds) |-> getBook(r.statuses[i], r.bookIds[i])]

PromiseAllRejects(r) == \E i \in 1..Len(r.bookIds) : GetBookResults(r)[i].throws

PromiseAllBooks(r) == [i \in 1..Len(r.bookIds) |-> GetBookResults(r)[i].book]

PromiseAllReason(r) ==
    GetBookResults(r)[CHOOSE i \in 1..Len(r.bookIds) : GetBookResults(r)[i].throws].message

getReadingLists(status) ==
    IF ~ResponseOk(status) THEN Throws("Failed to fetch reading lists") ELSE Returns

createReadingList(status) ==
    IF ~ResponseOk(status) THEN Throws("Failed to create reading list") ELSE Returns

updateReadingList(status) ==
    IF status = 401 THEN Throws("Unauthorized: Please login again")
    ELSE IF status = 404 THEN Throws("Reading list not found")
    ELSE IF status = 400 THEN Throws("Invalid request")
    ELSE IF ~ResponseOk(status) THEN Throws("Failed to update reading list")
    ELSE Returns

deleteReadingList(status) ==
    IF status = 401 THEN Throws("Unauthorized: Please login again")
    ELSE IF status = 404 THEN Throws("Reading list not found")
    ELSE IF status = 400 THEN Throws("Invalid request")
    ELSE IF ~ResponseOk(status) THEN Throws("Failed to delete reading list")
    ELSE Returns

\* ------------------------------------------- API client: response bodies
\* The functions above are what the page sees of the client when the backend
\* answers with a well-formed payload and no error text.  The operators
\* below model the same source functions on the whole response: its status
\* and the text of its body, which may be empty, not JSON, a JSON payload, or
\* the {statusCode, body} envelope whose body holds the payload.
\*
\* A payload is an array (items), or an object with an id and/or an error
\* field ("" models a field that is absent).
Payload(t, items, id, error) == [t |-> t, items |-> items, id |-> id, error |-> error]

Array(items) == Payload("array", items, "", "")

Object(id, error) == Payload("object", <<>>, id, error)

\* the body field of a parsed document: absent ("none"), a string that is
\* JSON ("json") or is not ("garbage"), or an object ("object")
Body(kind, payload) ==
    [kind |-> kind, t |-> payload.t, items |-> payload.items, id |-> payload.id,
     error |-> payload.error]

NoBody == Body("none", Object("", ""))

\* a parsed JSON document: the payload's own fields and its body field
Document(payload, body) ==
    [t |-> payload.t, items |-> payload.items, id |-> payload.id,
     error |-> payload.error, body |-> body]

Direct(payload) == Document(payload, NoBody)

\* {statusCode, body: JSON.stringify(payload)}
Enveloped(payload) == Document(Object("", ""), Body("json", payload))

Null == Document(Payload("null", <<>>, "", ""), NoBody)

Undefined == Document(Payload("undefined", <<>>, "", ""), NoBody)

\* the text of a response body
Text(kind, doc) == [kind |-> kind, doc |-> doc]

EmptyText == Text("empty", Undefined)

GarbageText == Text("garbage", Undefined)

Json(doc) == Text("json", doc)

Response(status, text) == [status |-> status, text |-> text]

\* JSON.parse / response.json(): a SyntaxError for an empty or non-JSON text
Parses(text) == text.kind = "json"

\* the truthiness of data.body: an absent field is undefined
Truthy(body) == body.kind # "none"

\* JSON.parse(data.body): the second decode pass; an object is first turned
\* into the string "[object Object]", which is not JSON
BodyParses(body) == body.kind = "json"

BodyValue(body) == Direct(Payload(body.t, body.items, body.id, body.error))

\* what a call does: it returns a value or throws
ReturnsValue(value) ==
    [state |-> "returned", kind |-> "", message |-> "", value |-> value]

ThrowsError(kind, message) ==
    [state |-> "threw", kind |-> kind, message |-> message, value |-> Undefined]

SyntaxError == ThrowsError("SyntaxError", "")

TypeError == ThrowsError("TypeError", "")

\* errorData.error || fallback
ErrorOr(error, fallback) == ThrowsError("Error", IF error # "" THEN error ELSE fallback)

\* `const data = await response.json(); if (data.body) return
\* JSON.parse(data.body); return data`
JsonThenBody(response) ==
    IF ~Parses(response.text) THEN SyntaxError
    ELSE LET data == response.text.doc
         IN IF Truthy(data.body)
            THEN IF BodyParses(data.body) THEN ReturnsValue(BodyValue(data.body))
                 ELSE SyntaxError
            ELSE ReturnsValue(data)

getBooksOn(response) ==
    IF ~ResponseOk(response.status) THEN ThrowsError("Error", "Failed to fetch books")
    ELSE IF ~Parses(response.text) THEN SyntaxError
    ELSE LET data == response.text.doc
         IN IF Truthy(data.body)
            THEN IF ~BodyParses(data.body) THEN SyntaxError
                 ELSE IF data.body.t # "array" THEN TypeError
                 ELSE \* real_data.slice(1)
                      ReturnsValue(Direct(Array(SubSeq(data.body.items, 2,
                                                       Len(data.body.items)))))
            ELSE IF data.t = "array" THEN ReturnsValue(data)
                 ELSE ReturnsValue(Direct(Array(<<>>)))

getBookOn(response) ==
    IF response.status = 404 THEN ReturnsValue(Null)
    ELSE IF ~ResponseOk(response.status) THEN ThrowsError("Error", "Failed to fetch book")
    ELSE JsonThenBody(response)

\* createBook and deleteReadingList read the text once, inside try/catch:
\* parsedData and errorData keep what was assigned before a parse failed
ParsedOnce(response, acceptsObjectBody) ==
    IF ~Parses(response.text)
    THEN [parsedData |-> Null, error |-> ""]
    ELSE LET data == response.text.doc
         IN IF Truthy(data.body) \/ (acceptsObjectBody /\ data.body.kind # "none")
            THEN IF BodyParses(data.body) \/ (acceptsObjectBody /\ data.body.kind = "object")
                 THEN [parsedData |-> BodyValue(data.body), error |-> data.body.error]
                 ELSE [parsedData |-> data, error |-> ""]
            ELSE [parsedData |-> data, error |-> data.error]

createBookOn(response) ==
    LET once == ParsedOnce(response, TRUE)
    IN IF response.status = 401
       THEN ErrorOr(once.error, "Unauthorized: Please login again")
       ELSE IF response.status = 403
       THEN ErrorOr(once.error, "Forbidden: Admin access required")
       ELSE IF response.status = 400
       THEN ErrorOr(once.error, "Invalid request: Missing required fields")
       ELSE IF response.status = 409
       THEN ErrorOr(once.error, "Book with this id already exists")
       ELSE IF ~ResponseOk(response.status)
       THEN ErrorOr(once.error, "Failed to create book")
       ELSE ReturnsValue(once.parsedData)

getReadingListsOn(response) ==
    IF ~ResponseOk(response.status) THEN ThrowsError("Error", "Failed to fetch reading lists")
    ELSE IF ~Parses(response.text) THEN SyntaxError
    ELSE LET data == response.text.doc
         IN IF Truthy(data.body)
            THEN IF BodyParses(data.body) THEN ReturnsValue(BodyValue(data.body))
                 ELSE SyntaxError
            ELSE IF data.t = "array" THEN ReturnsValue(data)
                 ELSE ReturnsValue(Direct(Array(<<>>)))

createReadingListOn(response) ==
    IF ~ResponseOk(response.status) THEN ThrowsError("Error", "Failed to create reading list")
    ELSE JsonThenBody(response)

updateReadingListOn(response) ==
    IF response.status = 401 THEN ThrowsError("Error", "Unauthorized: Please login again")
    ELSE IF response.status = 404 THEN ThrowsError("Error", "Reading list not found")
    ELSE IF response.status = 400
    THEN \* response.json().catch(() => ({})), then errorData.error
         ErrorOr(IF Parses(response.text) THEN response.text.doc.error ELSE "",
                 "Invalid request")
    ELSE IF ~ResponseOk(response.status)
    THEN ThrowsError("Error", "Failed to update reading list")
    ELSE JsonThenBody(response)

deleteReadingListOn(response) ==
    LET once == ParsedOnce(response, FALSE)
    IN IF response.status = 401
       THEN ErrorOr(once.error, "Unauthorized: Please login again")
       ELSE IF response.status = 404
       THEN ErrorOr(once.error, "Reading list not found")
       ELSE IF response.status = 400
       THEN ErrorOr(once.error, "Invalid request")
       ELSE IF ~ResponseOk(response.status)
       THEN ErrorOr(once.error, "Failed to delete reading list")
       ELSE ReturnsValue(Undefined)

\* no API call under test
NoCall == [fn |-> "none", response |-> Response(0, EmptyText)]

NoOutcome == [state |-> "none", kind |-> "", message |-> "", value |-> Undefined]

\* fetchAuthSession: a session with an id token, a session without tokens
\* (nobody is signed in), or a rejection
Sessions == {"idToken", "noTokens", "rejects"}

\* the headers of a request; "" models a header that is absent
Headers(authorization, contentType) ==
    [Authorization |-> authorization, ContentType |-> contentType]

\* fetch(url) without an init object
NoHeaders == Headers("", "")

getAuthHeaders(s) ==
    IF s = "idToken" THEN Headers("Bearer idToken", "application/json")
    ELSE Headers("", "application/json")

\* the request a call hands to fetch
Fetch(headers) == [sent |-> TRUE, headers |-> headers]

NoRequest == [sent |-> FALSE, headers |-> NoHeaders]

\* --------------------------------------------------------------- notifiers
Notification(type, message) == <<[type |-> type, message |-> message]>>

showSuccess(message) == Notification("success", message)

handleApiError(message) == Notification("error", message)

alert(message) == Notification("alert", message)

Silent == <<>>

\* ------------------------------------------------------------------ backend
\* The backend is an external collaborator; it is modelled as a store of
\* reading lists that answers each request once.  A request either takes
\* effect and is answered 2xx, or fails (500) without effect; a list or a
\* book that does not exist is answered 404.
InDb(id) == \E i \in 1..Len(db) : db[i].id = id

ServeGetReadingLists(r) ==
    /\ r.op = "getReadingLists"
    /\ \E st \in {200, 500} :
         inflight' = (inflight \ {r}) \cup
             {[r EXCEPT !.status = st, !.data = IF st = 200 THEN db ELSE <<>>]}
    /\ UNCHANGED <<db, nextId>>

ServeCreateReadingList(r) ==
    /\ r.op = "createReadingList"
    /\ \/ LET newList == ReadingList(nextId, r.name, r.description, r.bookIds)
          IN /\ db' = Append(db, newList)
             /\ nextId' = nextId + 1
             /\ inflight' = (inflight \ {r}) \cup
                    {[r EXCEPT !.status = 200, !.data = <<newList>>]}
       \/ /\ inflight' = (inflight \ {r}) \cup {[r EXCEPT !.status = 500]}
          /\ UNCHANGED <<db, nextId>>

ServeGetBooks(r) ==
    /\ r.op = "getBooks"
    /\ \E sts \in [1..Len(r.bookIds) -> {200, 404, 500}] :
         /\ \A i \in 1..Len(r.bookIds) :
               /\ sts[i] = 200 => r.bookIds[i] \in Catalog
               /\ sts[i] = 404 => r.bookIds[i] \notin Catalog
         /\ inflight' = (inflight \ {r}) \cup {[r EXCEPT !.statuses = sts]}
    /\ UNCHANGED <<db, nextId>>

ServeUpdateReadingList(r) ==
    /\ r.op = "updateReadingList"
    /\ IF InDb(r.listId)
       THEN \/ LET updated(l) == IF l.id = r.listId
                                 THEN [l EXCEPT !.bookIds = r.bookIds] ELSE l
                   stored == [i \in 1..Len(db) |-> updated(db[i])]
               IN /\ db' = stored
                  /\ inflight' = (inflight \ {r}) \cup
                        {[r EXCEPT !.status = 200,
                                   !.data = SelectSeq(stored, LAMBDA l : l.id = r.listId)]}
            \/ /\ inflight' = (inflight \ {r}) \cup {[r EXCEPT !.status = 500]}
               /\ UNCHANGED db
       ELSE /\ inflight' = (inflight \ {r}) \cup {[r EXCEPT !.status = 404]}
            /\ UNCHANGED db
    /\ UNCHANGED nextId

ServeDeleteReadingList(r) ==
    /\ r.op = "deleteReadingList"
    /\ IF InDb(r.listId)
       THEN \/ /\ db' = SelectSeq(db, LAMBDA l : l.id # r.listId)
               /\ inflight' = (inflight \ {r}) \cup {[r EXCEPT !.status = 200]}
            \/ /\ inflight' = (inflight \ {r}) \cup {[r EXCEPT !.status = 500]}
               /\ UNCHANGED db
       ELSE /\ inflight' = (inflight \ {r}) \cup {[r EXCEPT !.status = 404]}
            /\ UNCHANGED db
    /\ UNCHANGED nextId

ServerRespond(r) ==
    /\ Pending(r)
    /\ \/ ServeGetReadingLists(r)
       \/ ServeCreateReadingList(r)
       \/ ServeGetBooks(r)
       \/ ServeUpdateReadingList(r)
       \/ ServeDeleteReadingList(r)
    /\ emitted' = Silent
    /\ resolved' = <<>>
    /\ gesture' = "none"
    /\ UNCHANGED <<awaiting, created, removed, offPage>>
    /\ UNCHANGED <<mounted, lists, isLoading, isModalOpen, newListName,
                   newListDescription, selectedList, listBooks, isLoadingBooks,
                   isBooksModalOpen, removingBookId, deletingListId, dialog, sent>>

\* ------------------------------------------------------------ what renders
\* The page body is rendered only when isLoading is false; an open modal or
\* confirmation dialog covers the page with a backdrop that takes the clicks.
PageRendered == mounted /\ ~isLoading

NoOverlay == ~isModalOpen /\ ~isBooksModalOpen /\ ~dialog.isOpen

Send(req) == inflight' = inflight \cup {req} /\ sent' = sent + 1

Complete(r) == inflight' = inflight \ {r} /\ UNCHANGED sent

\* ------------------------------------------------- mount effect: loadLists
LoadLists ==
    /\ ~mounted
    /\ CanSend
    /\ mounted' = TRUE
    /\ isLoading' = TRUE
    /\ Send(Request(FreeRid, "getReadingLists"))
    /\ emitted' = Silent
    /\ resolved' = <<>>
    /\ gesture' = "none"
    /\ UNCHANGED <<awaiting, created, removed, offPage>>
    /\ UNCHANGED <<db, nextId, lists, isModalOpen, newListName, newListDescription,
                   selectedList, listBooks, isLoadingBooks, isBooksModalOpen,
                   removingBookId, deletingListId, dialog>>

LoadListsDone(r) ==
    /\ r \in inflight /\ r.op = "getReadingLists" /\ Returned(r)
    /\ ~getReadingLists(r.status).throws
    /\ lists' = r.data
    /\ isLoading' = FALSE
    /\ Complete(r)
    /\ emitted' = Silent
    /\ resolved' = <<>>
    /\ gesture' = "none"
    /\ UNCHANGED <<awaiting, created, removed, offPage>>
    /\ UNCHANGED <<db, nextId, mounted, isModalOpen, newListName, newListDescription,
                   selectedList, listBooks, isLoadingBooks, isBooksModalOpen,
                   removingBookId, deletingListId, dialog>>

\* variant: the catch block calls loadLists again
LoadListsFailedRetries(r) ==
    /\ r \in inflight /\ r.op = "getReadingLists" /\ Returned(r)
    /\ getReadingLists(r.status).throws
    /\ CanSend
    /\ inflight' = (inflight \ {r}) \cup {Request(r.rid, "getReadingLists")}
    /\ sent' = sent + 1
    /\ emitted' = handleApiError(getReadingLists(r.status).message)
    /\ resolved' = <<>>
    /\ gesture' = "none"
    /\ UNCHANGED <<awaiting, created, removed, offPage>>
    /\ UNCHANGED <<db, nextId, mounted, lists, isLoading, isModalOpen, newListName,
                   newListDescription, selectedList, listBooks, isLoadingBooks,
                   isBooksModalOpen, removingBookId, deletingListId, dialog>>

LoadListsFailed(r) ==
    /\ r \in inflight /\ r.op = "getReadingLists" /\ Returned(r)
    /\ getReadingLists(r.status).throws
    /\ isLoading' = FALSE
    /\ Complete(r)
    /\ emitted' = handleApiError(getReadingLists(r.status).message)
    /\ resolved' = <<>>
    /\ gesture' = "none"
    /\ UNCHANGED <<awaiting, created, removed, offPage>>
    /\ UNCHANGED <<db, nextId, mounted, lists, isModalOpen, newListName,
                   newListDescription, selectedList, listBooks, isLoadingBooks,
                   isBooksModalOpen, removingBookId, deletingListId, dialog>>

\* ------------------------------------------------------------ create modal
OpenCreateModal ==
    /\ PageRendered /\ NoOverlay
    /\ isModalOpen' = TRUE
    /\ emitted' = Silent
    /\ resolved' = <<>>
    /\ gesture' = "none"
    /\ UNCHANGED <<awaiting, created, removed, offPage>>
    /\ UNCHANGED <<db, nextId, mounted, lists, isLoading, newListName,
                   newListDescription, selectedList, listBooks, isLoadingBooks,
                   isBooksModalOpen, removingBookId, deletingListId, dialog, inflight, sent>>

CloseCreateModal ==
    /\ PageRendered /\ isModalOpen
    /\ isModalOpen' = FALSE
    /\ emitted' = Silent
    /\ resolved' = <<>>
    /\ gesture' = "none"
    /\ UNCHANGED <<awaiting, created, removed, offPage>>
    /\ UNCHANGED <<db, nextId, mounted, lists, isLoading, newListName,
                   newListDescription, selectedList, listBooks, isLoadingBooks,
                   isBooksModalOpen, removingBookId, deletingListId, dialog, inflight, sent>>

SetNewListName(n) ==
    /\ PageRendered /\ isModalOpen
    /\ n # newListName
    /\ newListName' = n
    /\ emitted' = Silent
    /\ resolved' = <<>>
    /\ gesture' = "none"
    /\ UNCHANGED <<awaiting, created, removed, offPage>>
    /\ UNCHANGED <<db, nextId, mounted, lists, isLoading, isModalOpen,
                   newListDescription, selectedList, listBooks, isLoadingBooks,
                   isBooksModalOpen, removingBookId, deletingListId, dialog, inflight, sent>>

SetNewListDescription(d) ==
    /\ PageRendered /\ isModalOpen
    /\ d # newListDescription
    /\ newListDescription' = d
    /\ emitted' = Silent
    /\ resolved' = <<>>
    /\ gesture' = "none"
    /\ UNCHANGED <<awaiting, created, removed, offPage>>
    /\ UNCHANGED <<db, nextId, mounted, lists, isLoading, isModalOpen,
                   newListName, selectedList, listBooks, isLoadingBooks,
                   isBooksModalOpen, removingBookId, deletingListId, dialog, inflight, sent>>

\* variant: the description field is not passed to createReadingList
HandleCreateListDropsDescription ==
    /\ PageRendered /\ isModalOpen
    /\ IF Trim(newListName) = <<>>
       THEN /\ emitted' = alert("Please enter a list name")
            /\ UNCHANGED <<inflight, sent>>
       ELSE /\ CanSend
            /\ Send([Request(FreeRid, "createReadingList") EXCEPT
                       !.name = newListName,
                       !.description = <<>>,
                       !.typedName = newListName,
                       !.typedDescription = newListDescription,
                       !.bookIds = <<>>,
                       !.cLists = lists])
            /\ emitted' = Silent
    /\ resolved' = <<>>
    /\ gesture' = "none"
    /\ UNCHANGED <<awaiting, created, removed, offPage>>
    /\ UNCHANGED <<db, nextId, mounted, lists, isLoading, isModalOpen, newListName,
                   newListDescription, selectedList, listBooks, isLoadingBooks,
                   isBooksModalOpen, removingBookId, deletingListId, dialog>>

HandleCreateList ==
    /\ PageRendered /\ isModalOpen
    /\ IF Trim(newListName) = <<>>
       THEN /\ emitted' = alert("Please enter a list name")
            /\ UNCHANGED <<inflight, sent>>
       ELSE /\ CanSend
            /\ Send([Request(FreeRid, "createReadingList") EXCEPT
                       !.name = newListName,
                       !.description = newListDescription,
                       !.typedName = newListName,
                       !.typedDescription = newListDescription,
                       !.bookIds = <<>>,
                       !.cLists = lists])
            /\ emitted' = Silent
    /\ resolved' = <<>>
    /\ gesture' = "none"
    /\ UNCHANGED <<awaiting, created, removed, offPage>>
    /\ UNCHANGED <<db, nextId, mounted, lists, isLoading, isModalOpen, newListName,
                   newListDescription, selectedList, listBooks, isLoadingBooks,
                   isBooksModalOpen, removingBookId, deletingListId, dialog>>

CreateListDone(r) ==
    /\ r \in inflight /\ r.op = "createReadingList" /\ Returned(r)
    /\ ~createReadingList(r.status).throws
    /\ lists' = Append(r.cLists, r.data[1])
    /\ isModalOpen' = FALSE
    /\ newListName' = <<>>
    /\ newListDescription' = <<>>
    /\ Complete(r)
    /\ emitted' = showSuccess("Reading list created successfully!")
    /\ resolved' = <<>>
    /\ gesture' = "none"
    /\ created' = created \cup {[id |-> r.data[1].id, name |-> r.typedName,
                                  description |-> r.typedDescription]}
    /\ UNCHANGED <<awaiting, removed, offPage>>
    /\ UNCHANGED <<db, nextId, mounted, isLoading, selectedList, listBooks,
                   isLoadingBooks, isBooksModalOpen, removingBookId,
                   deletingListId, dialog>>

\* variant: the catch block swallows the error without handleApiError
CreateListFailedSilently(r) ==
    /\ r \in inflight /\ r.op = "createReadingList" /\ Returned(r)
    /\ createReadingList(r.status).throws
    /\ Complete(r)
    /\ emitted' = Silent
    /\ resolved' = <<>>
    /\ gesture' = "none"
    /\ UNCHANGED <<awaiting, created, removed, offPage>>
    /\ UNCHANGED <<db, nextId, mounted, lists, isLoading, isModalOpen, newListName,
                   newListDescription, selectedList, listBooks, isLoadingBooks,
                   isBooksModalOpen, removingBookId, deletingListId, dialog>>

CreateListFailed(r) ==
    /\ r \in inflight /\ r.op = "createReadingList" /\ Returned(r)
    /\ createReadingList(r.status).throws
    /\ Complete(r)
    /\ emitted' = handleApiError(createReadingList(r.status).message)
    /\ resolved' = <<>>
    /\ gesture' = "none"
    /\ UNCHANGED <<awaiting, created, removed, offPage>>
    /\ UNCHANGED <<db, nextId, mounted, lists, isLoading, isModalOpen, newListName,
                   newListDescription, selectedList, listBooks, isLoadingBooks,
                   isBooksModalOpen, removingBookId, deletingListId, dialog>>

\* ------------------------------------------- select a list, load its books
HandleListClick(list) ==
    /\ PageRendered /\ NoOverlay
    /\ list \in Range(lists)
    /\ selectedList' = list
    /\ isBooksModalOpen' = TRUE
    /\ IF list.bookIds = <<>>
       THEN \* Promise.all([]) resolves without a request
            /\ listBooks' = <<>>
            /\ isLoadingBooks' = FALSE
            /\ UNCHANGED <<inflight, sent>>
       ELSE /\ CanSend
            /\ isLoadingBooks' = TRUE
            /\ Send([Request(FreeRid, "getBooks") EXCEPT
                       !.listId = list.id, !.bookIds = list.bookIds])
            /\ UNCHANGED listBooks
    /\ emitted' = Silent
    /\ resolved' = <<>>
    /\ gesture' = "none"
    /\ UNCHANGED <<awaiting, created, removed, offPage>>
    /\ UNCHANGED <<db, nextId, mounted, lists, isLoading, isModalOpen, newListName,
                   newListDescription, removingBookId, deletingListId, dialog>>

LoadListBooksDone(r) ==
    /\ r \in inflight /\ r.op = "getBooks" /\ Returned(r) /\ ~PromiseAllRejects(r)
    /\ listBooks' = SelectSeq(PromiseAllBooks(r), LAMBDA book : book # NoBook)
    /\ isLoadingBooks' = FALSE
    /\ Complete(r)
    /\ emitted' = Silent
    /\ resolved' = <<>>
    /\ gesture' = "none"
    /\ UNCHANGED <<awaiting, created, removed, offPage>>
    /\ UNCHANGED <<db, nextId, mounted, lists, isLoading, isModalOpen, newListName,
                   newListDescription, selectedList, isBooksModalOpen,
                   removingBookId, deletingListId, dialog>>

\* variant: the books that did resolve are committed although the batch failed
LoadListBooksFailedPartial(r) ==
    /\ r \in inflight /\ r.op = "getBooks" /\ Returned(r) /\ PromiseAllRejects(r)
    /\ listBooks' = SelectSeq(PromiseAllBooks(r), LAMBDA book : book # NoBook)
    /\ isLoadingBooks' = FALSE
    /\ Complete(r)
    /\ emitted' = handleApiError(PromiseAllReason(r))
    /\ resolved' = <<>>
    /\ gesture' = "none"
    /\ UNCHANGED <<awaiting, created, removed, offPage>>
    /\ UNCHANGED <<db, nextId, mounted, lists, isLoading, isModalOpen, newListName,
                   newListDescription, selectedList, isBooksModalOpen,
                   removingBookId, deletingListId, dialog>>

LoadListBooksFailed(r) ==
    /\ r \in inflight /\ r.op = "getBooks" /\ Returned(r) /\ PromiseAllRejects(r)
    /\ isLoadingBooks' = FALSE
    /\ Complete(r)
    /\ emitted' = handleApiError(PromiseAllReason(r))
    /\ resolved' = <<>>
    /\ gesture' = "none"
    /\ UNCHANGED <<awaiting, created, removed, offPage>>
    /\ UNCHANGED <<db, nextId, mounted, lists, isLoading, isModalOpen, newListName,
                   newListDescription, selectedList, listBooks, isBooksModalOpen,
                   removingBookId, deletingListId, dialog>>

CloseBooksModal ==
    /\ PageRendered /\ isBooksModalOpen
    /\ isBooksModalOpen' = FALSE
    /\ selectedList' = NoList
    /\ listBooks' = <<>>
    /\ emitted' = Silent
    /\ resolved' = <<>>
    /\ gesture' = "none"
    /\ UNCHANGED <<awaiting, created, removed, offPage>>
    /\ UNCHANGED <<db, nextId, mounted, lists, isLoading, isModalOpen, newListName,
                   newListDescription, isLoadingBooks, removingBookId,
                   deletingListId, dialog, inflight, sent>>

\* --------------------------------------------- remove a book from the list
HandleRemoveBook(bookId) ==
    /\ PageRendered /\ isBooksModalOpen /\ ~isLoadingBooks
    /\ bookId \in Range(listBooks)
    /\ removingBookId # bookId
    /\ IF selectedList = NoList
       THEN UNCHANGED <<removingBookId, inflight, sent>>
       ELSE /\ CanSend
            /\ removingBookId' = bookId
            /\ Send([Request(FreeRid, "updateReadingList") EXCEPT
                       !.listId = selectedList.id,
                       !.bookId = bookId,
                       !.bookIds = SelectSeq(selectedList.bookIds, LAMBDA id : id # bookId),
                       !.cSelected = selectedList,
                       !.cListBooks = listBooks,
                       !.cLists = lists])
    /\ emitted' = Silent
    /\ resolved' = <<>>
    /\ gesture' = "none"
    /\ UNCHANGED <<awaiting, created, removed, offPage>>
    /\ UNCHANGED <<db, nextId, mounted, lists, isLoading, isModalOpen, newListName,
                   newListDescription, selectedList, listBooks, isLoadingBooks,
                   isBooksModalOpen, deletingListId, dialog>>

RemoveBookDone(r) ==
    /\ r \in inflight /\ r.op = "updateReadingList" /\ Returned(r)
    /\ ~updateReadingList(r.status).throws
    /\ LET updatedList == r.data[1]
       IN /\ selectedList' = updatedList
          /\ listBooks' = SelectSeq(r.cListBooks, LAMBDA book : book # r.bookId)
          /\ lists' = [i \in 1..Len(r.cLists) |->
                          IF r.cLists[i].id = r.cSelected.id THEN updatedList
                          ELSE r.cLists[i]]
    /\ removingBookId' = NoBook
    /\ Complete(r)
    /\ emitted' = showSuccess("Book removed from reading list successfully!")
    /\ resolved' = <<>>
    /\ gesture' = "none"
    /\ removed' = removed \cup {[listId |-> r.listId, bookId |-> r.bookId]}
    /\ UNCHANGED <<awaiting, created, offPage>>
    /\ UNCHANGED <<db, nextId, mounted, isLoading, isModalOpen, newListName,
                   newListDescription, isLoadingBooks, isBooksModalOpen,
                   deletingListId, dialog>>

\* variant: the book is taken out of the view although the request failed
RemoveBookFailedNoRollback(r) ==
    /\ r \in inflight /\ r.op = "updateReadingList" /\ Returned(r)
    /\ updateReadingList(r.status).throws
    /\ listBooks' = SelectSeq(listBooks, LAMBDA book : book # r.bookId)
    /\ removingBookId' = NoBook
    /\ Complete(r)
    /\ emitted' = handleApiError(updateReadingList(r.status).message)
    /\ resolved' = <<>>
    /\ gesture' = "none"
    /\ UNCHANGED <<awaiting, created, removed, offPage>>
    /\ UNCHANGED <<db, nextId, mounted, lists, isLoading, isModalOpen, newListName,
                   newListDescription, selectedList, isLoadingBooks,
                   isBooksModalOpen, deletingListId, dialog>>

RemoveBookFailed(r) ==
    /\ r \in inflight /\ r.op = "updateReadingList" /\ Returned(r)
    /\ updateReadingList(r.status).throws
    /\ removingBookId' = NoBook
    /\ Complete(r)
    /\ emitted' = handleApiError(updateReadingList(r.status).message)
    /\ resolved' = <<>>
    /\ gesture' = "none"
    /\ UNCHANGED <<awaiting, created, removed, offPage>>
    /\ UNCHANGED <<db, nextId, mounted, lists, isLoading, isModalOpen, newListName,
                   newListDescription, selectedList, listBooks, isLoadingBooks,
                   isBooksModalOpen, deletingListId, dialog>>

\* ------------------------------------------ delete a list, after confirm()
\* confirm(options) stores the resolver of the awaiting caller in the dialog
\* slot; the caller here is handleDeleteList, suspended with its closure.
confirm(listId) ==
    /\ dialog' = [isOpen |-> TRUE, listId |-> listId, cLists |-> lists,
                  cSelected |-> selectedList]
    /\ awaiting' = awaiting + 1

HandleDeleteList(listId) ==
    /\ PageRendered /\ NoOverlay
    /\ listId \in Ids(lists)
    /\ deletingListId # listId
    /\ confirm(listId)
    /\ emitted' = Silent
    /\ resolved' = <<>>
    /\ gesture' = "none"
    /\ UNCHANGED <<created, removed, offPage>>
    /\ UNCHANGED <<db, nextId, mounted, lists, isLoading, isModalOpen, newListName,
                   newListDescription, selectedList, listBooks, isLoadingBooks,
                   isBooksModalOpen, removingBookId, deletingListId, inflight, sent>>

\* The confirmation dialog has no focus trap: a delete button of the page
\* behind it can still be activated from the keyboard.  handleDeleteList then
\* calls confirm() while an earlier caller is suspended, and setDialog puts
\* the new resolver in the slot.
HandleDeleteListBehindDialog(listId) ==
    /\ PageRendered /\ dialog.isOpen
    /\ awaiting < MaxAwaiting
    /\ listId \in Ids(lists)
    /\ deletingListId # listId
    /\ confirm(listId)
    /\ emitted' = Silent
    /\ resolved' = <<>>
    /\ gesture' = "none"
    /\ UNCHANGED <<created, removed, offPage>>
    /\ UNCHANGED <<db, nextId, mounted, lists, isLoading, isModalOpen, newListName,
                   newListDescription, selectedList, listBooks, isLoadingBooks,
                   isBooksModalOpen, removingBookId, deletingListId, inflight, sent>>

\* variant: accepting also settles the promises of the requests that were
\* replaced in the slot
HandleConfirmSettlesReplaced ==
    /\ dialog.isOpen
    /\ CanSend
    /\ dialog' = NoDialog
    /\ deletingListId' = dialog.listId
    /\ Send([Request(FreeRid, "deleteReadingList") EXCEPT
               !.listId = dialog.listId,
               !.cLists = dialog.cLists,
               !.cSelected = dialog.cSelected])
    /\ emitted' = Silent
    /\ resolved' = <<TRUE>>
    /\ gesture' = "onConfirm"
    /\ awaiting' = 0
    /\ UNCHANGED <<created, removed, offPage>>
    /\ UNCHANGED <<db, nextId, mounted, lists, isLoading, isModalOpen, newListName,
                   newListDescription, selectedList, listBooks, isLoadingBooks,
                   isBooksModalOpen, removingBookId>>

\* accept: resolve(true), the dialog closes and handleDeleteList goes on to
\* send the request
HandleConfirm ==
    /\ dialog.isOpen
    /\ CanSend
    /\ dialog' = NoDialog
    /\ deletingListId' = dialog.listId
    /\ Send([Request(FreeRid, "deleteReadingList") EXCEPT
               !.listId = dialog.listId,
               !.cLists = dialog.cLists,
               !.cSelected = dialog.cSelected])
    /\ emitted' = Silent
    /\ resolved' = <<TRUE>>
    /\ gesture' = "onConfirm"
    /\ awaiting' = awaiting - 1
    /\ UNCHANGED <<created, removed, offPage>>
    /\ UNCHANGED <<db, nextId, mounted, lists, isLoading, isModalOpen, newListName,
                   newListDescription, selectedList, listBooks, isLoadingBooks,
                   isBooksModalOpen, removingBookId>>

\* variant: the result of confirm() is not tested, a declined delete is sent
HandleCancelStillDeletes ==
    /\ dialog.isOpen
    /\ CanSend
    /\ dialog' = NoDialog
    /\ deletingListId' = dialog.listId
    /\ Send([Request(FreeRid, "deleteReadingList") EXCEPT
               !.listId = dialog.listId,
               !.cLists = dialog.cLists,
               !.cSelected = dialog.cSelected])
    /\ emitted' = Silent
    /\ resolved' = <<FALSE>>
    /\ gesture' = "onCancel"
    /\ awaiting' = awaiting - 1
    /\ UNCHANGED <<created, removed, offPage>>
    /\ UNCHANGED <<db, nextId, mounted, lists, isLoading, isModalOpen, newListName,
                   newListDescription, selectedList, listBooks, isLoadingBooks,
                   isBooksModalOpen, removingBookId>>

\* cancel or backdrop click: resolve(false), handleDeleteList returns
HandleCancel ==
    /\ dialog.isOpen
    /\ dialog' = NoDialog
    /\ emitted' = Silent
    /\ resolved' = <<FALSE>>
    /\ gesture' = "onCancel"
    /\ awaiting' = awaiting - 1
    /\ UNCHANGED <<created, removed, offPage>>
    /\ UNCHANGED <<db, nextId, mounted, lists, isLoading, isModalOpen, newListName,
                   newListDescription, selectedList, listBooks, isLoadingBooks,
                   isBooksModalOpen, removingBookId, deletingListId, inflight, sent>>

DeleteListDone(r) ==
    /\ r \in inflight /\ r.op = "deleteReadingList" /\ Returned(r)
    /\ ~deleteReadingList(r.status).throws
    /\ lists' = SelectSeq(r.cLists, LAMBDA l : l.id # r.listId)
    /\ IF r.cSelected.id = r.listId
       THEN /\ isBooksModalOpen' = FALSE
            /\ selectedList' = NoList
            /\ listBooks' = <<>>
       ELSE UNCHANGED <<isBooksModalOpen, selectedList, listBooks>>
    /\ deletingListId' = 0
    /\ Complete(r)
    /\ emitted' = showSuccess("Reading list deleted successfully!")
    /\ resolved' = <<>>
    /\ gesture' = "none"
    /\ UNCHANGED <<awaiting, created, removed, offPage>>
    /\ UNCHANGED <<db, nextId, mounted, isLoading, isModalOpen, newListName,
                   newListDescription, isLoadingBooks, removingBookId, dialog>>

\* variant: the list is dropped from the cache although the request failed
DeleteListFailedDropsList(r) ==
    /\ r \in inflight /\ r.op = "deleteReadingList" /\ Returned(r)
    /\ deleteReadingList(r.status).throws
    /\ lists' = SelectSeq(r.cLists, LAMBDA l : l.id # r.listId)
    /\ deletingListId' = 0
    /\ Complete(r)
    /\ emitted' = handleApiError(deleteReadingList(r.status).message)
    /\ resolved' = <<>>
    /\ gesture' = "none"
    /\ UNCHANGED <<awaiting, created, removed, offPage>>
    /\ UNCHANGED <<db, nextId, mounted, isLoading, isModalOpen, newListName,
                   newListDescription, selectedList, listBooks, isLoadingBooks,
                   isBooksModalOpen, removingBookId, dialog>>

DeleteListFailed(r) ==
    /\ r \in inflight /\ r.op = "deleteReadingList" /\ Returned(r)
    /\ deleteReadingList(r.status).throws
    /\ deletingListId' = 0
    /\ Complete(r)
    /\ emitted' = handleApiError(deleteReadingList(r.status).message)
    /\ resolved' = <<>>
    /\ gesture' = "none"
    /\ UNCHANGED <<awaiting, created, removed, offPage>>
    /\ UNCHANGED <<db, nextId, mounted, lists, isLoading, isModalOpen, newListName,
                   newListDescription, selectedList, listBooks, isLoadingBooks,
                   isBooksModalOpen, removingBookId, dialog>>

\* ------------------------------------------------- leave the page, come back
\* loadLists runs from the mount effect only.  When the route is left and
\* entered again the component is mounted anew: its state is the initial one
\* and the mount effect runs again.  The route is left here when no request
\* of the old instance is in flight and no overlay covers the navigation.
Remount ==
    /\ PageRendered /\ NoOverlay
    /\ inflight = {}
    /\ mounted' = FALSE
    /\ lists' = <<>>
    /\ isLoading' = TRUE
    /\ newListName' = <<>>
    /\ newListDescription' = <<>>
    /\ selectedList' = NoList
    /\ listBooks' = <<>>
    /\ isLoadingBooks' = FALSE
    /\ removingBookId' = NoBook
    /\ deletingListId' = 0
    /\ emitted' = Silent
    /\ resolved' = <<>>
    /\ gesture' = "none"
    /\ UNCHANGED <<awaiting, created, removed, offPage>>
    /\ UNCHANGED <<db, nextId, isModalOpen, isBooksModalOpen, dialog, inflight, sent>>

\* ----------------------------------------------------------- specification
\* In the specification of the page, the notification channel has its
\* surface registered and shows nothing, and no API call is under test.
ChannelIdle ==
    /\ toastFunctions = TRUE
    /\ invoked = NotInvoked
    /\ forwarded = <<>>
    /\ alerted = <<>>
    /\ toasts = <<>>
    /\ timers = <<>>
    /\ nextToastId = 1

ApiIdle ==
    /\ call = NoCall
    /\ outcome = NoOutcome
    /\ session = "noTokens"
    /\ request = NoRequest

\* Signup as it is mounted: the initial values of its useState calls
SignupMounted ==
    [name |-> "", email |-> "", password |-> "", confirmPassword |-> "",
     errors |-> {}, isLoading |-> FALSE, needsVerification |-> FALSE,
     verificationCode |-> <<>>]

\* no useAuth call is awaited
NoAuth ==
    [fn |-> "none", state |-> "none", email |-> "", password |-> "", name |-> "",
     code |-> <<>>]

\* Books as it is mounted: the initial values of its useState calls
BooksMounted ==
    [books |-> <<>>, filteredBooks |-> <<>>, isLoading |-> TRUE,
     sortBy |-> "title", searchQuery |-> <<>>]

\* in the specifications of the other components the signup page and the
\* books page are not on screen
FormsIdle ==
    /\ signupPage = SignupMounted
    /\ auth = NoAuth
    /\ navigation = "none"
    /\ booksPage = BooksMounted
    /\ shelf = <<>>
    /\ fetching = "none"
    /\ notified = <<>>

PageInit ==
    /\ db = InitDb
    /\ nextId = Len(InitDb) + 1
    /\ mounted = FALSE
    /\ lists = <<>>
    /\ isLoading = TRUE
    /\ isModalOpen = FALSE
    /\ newListName = <<>>
    /\ newListDescription = <<>>
    /\ selectedList = NoList
    /\ listBooks = <<>>
    /\ isLoadingBooks = FALSE
    /\ isBooksModalOpen = FALSE
    /\ removingBookId = NoBook
    /\ deletingListId = 0
    /\ dialog = NoDialog
    /\ inflight = {}
    /\ sent = 0
    /\ emitted = Silent
    /\ resolved = <<>>
    /\ gesture = "none"
    /\ awaiting = 0
    /\ created = {}
    /\ removed = {}

Init == PageInit /\ ChannelIdle /\ ApiIdle /\ FormsIdle

Next ==
    \/ LoadLists
    \/ \E r \in inflight : ServerRespond(r)
    \/ \E r \in inflight : LoadListsDone(r)
    \/ \E r \in inflight : LoadListsFailed(r)
    \/ OpenCreateModal
    \/ CloseCreateModal
    \/ \E n \in Names : SetNewListName(n)
    \/ \E d \in Descriptions : SetNewListDescription(d)
    \/ HandleCreateList
    \/ \E r \in inflight : CreateListDone(r)
    \/ \E r \in inflight : CreateListFailed(r)
    \/ \E list \in Range(lists) : HandleListClick(list)
    \/ \E r \in inflight : LoadListBooksDone(r)
    \/ \E r \in inflight : LoadListBooksFailed(r)
    \/ CloseBooksModal
    \/ \E bookId \in Range(listBooks) : HandleRemoveBook(bookId)
    \/ \E listId \in Ids(lists) : HandleDeleteList(listId)
    \/ HandleConfirm
    \/ HandleCancel
    \/ \E r \in inflight : RemoveBookDone(r)
    \/ \E r \in inflight : RemoveBookFailed(r)
    \/ \E r \in inflight : DeleteListDone(r)
    \/ \E r \in inflight : DeleteListFailed(r)

Spec == Init /\ [][Next]_vars

\* The page from the moment its mount request has succeeded: the state Spec
\* reaches by LoadLists, ServerRespond (200) and LoadListsDone.  The request
\* budget is counted from here, which leaves room for runs in which three
\* requests of the user's gestures overlap.
InitLoaded ==
    /\ db = InitDb
    /\ nextId = Len(InitDb) + 1
    /\ mounted = TRUE
    /\ lists = InitDb
    /\ isLoading = FALSE
    /\ isModalOpen = FALSE
    /\ newListName = <<>>
    /\ newListDescription = <<>>
    /\ selectedList = NoList
    /\ listBooks = <<>>
    /\ isLoadingBooks = FALSE
    /\ isBooksModalOpen = FALSE
    /\ removingBookId = NoBook
    /\ deletingListId = 0
    /\ dialog = NoDialog
    /\ inflight = {}
    /\ sent = 0
    /\ emitted = Silent
    /\ resolved = <<>>
    /\ gesture = "none"
    /\ awaiting = 0
    /\ created = {}
    /\ removed = {}
    /\ ChannelIdle
    /\ ApiIdle
    /\ FormsIdle

NextLoaded ==
    \/ \E r \in inflight : ServerRespond(r)
    \/ \E list \in Range(lists) : HandleListClick(list)
    \/ \E r \in inflight : LoadListBooksDone(r)
    \/ \E r \in inflight : LoadListBooksFailed(r)
    \/ CloseBooksModal
    \/ \E bookId \in Range(listBooks) : HandleRemoveBook(bookId)
    \/ \E listId \in Ids(lists) : HandleDeleteList(listId)
    \/ HandleConfirm
    \/ HandleCancel
    \/ \E r \in inflight : RemoveBookDone(r)
    \/ \E r \in inflight : RemoveBookFailed(r)
    \/ \E r \in inflight : DeleteListDone(r)
    \/ \E r \in inflight : DeleteListFailed(r)

\* the create modal is left out of this specification
SpecLoaded == InitLoaded /\ [][NextLoaded]_vars

\* The page with the keyboard reaching the controls behind the confirmation
\* dialog.
NextConfirm ==
    \/ Next
    \/ \E listId \in Ids(lists) : HandleDeleteListBehindDialog(listId)

SpecConfirm == Init /\ [][NextConfirm]_vars

\* The confirmation provider with its one caller, handleDeleteList, on the
\* loaded page: the delete buttons, also reached behind the dialog, the two
\* buttons of the dialog, and the delete requests that follow an accept.
NextDelete ==
    \/ \E listId \in Ids(lists) : HandleDeleteList(listId)
    \/ \E listId \in Ids(lists) : HandleDeleteListBehindDialog(listId)
    \/ HandleConfirm
    \/ HandleCancel
    \/ \E r \in inflight : ServerRespond(r)
    \/ \E r \in inflight : DeleteListDone(r)
    \/ \E r \in inflight : DeleteListFailed(r)

SpecDelete == InitLoaded /\ [][NextDelete]_vars

\* The page with the route left and entered again.
NextRemount ==
    \/ Next
    \/ Remount

SpecRemount == Init /\ [][NextRemount]_vars

\* ----------------------------------------------------- notification channel
\* errorHandling.ts keeps the registered surface in the module variable
\* toastFunctions.  Each helper forwards its message to the surface when one
\* is registered and shows a blocking alert otherwise.
Messages == {"saved", "failed"}

\* what a catch block may hand to handleApiError: an Error, a string, or
\* something else
Errors ==
    [kind : {"Error", "string"}, text : Messages] \cup {[kind |-> "other", text |-> ""]}

\* the message handleApiError displays for an error
ErrorMessage(error) ==
    IF error.kind \in {"Error", "string"} THEN error.text
    ELSE "An unexpected error occurred"

\* the provider of the surface is not part of these sources: a call to one
\* of its four functions adds a toast of the matching type, and onClose
\* removes the toast with the given id
ToastType(fn) ==
    CASE fn = "showSuccess" -> "success"
      [] fn = "showError" -> "error"
      [] fn = "showInfo" -> "info"
      [] fn = "showWarning" -> "warning"

ToastIds == {toasts[i].id : i \in 1..Len(toasts)}

\* variant: the effect runs again on every render, so every rendered toast
\* gets a new timer whenever the list of toasts changes
ToastItemTimersRestarted(rendered) ==
    [id \in {rendered[i].id : i \in 1..Len(rendered)} |-> ToastTicks]

\* ToastItem's effect: a toast that is mounted starts its own timer, a toast
\* that is unmounted clears it, a toast that stays rendered with the same
\* toast.id and onClose keeps the timer it has
ToastItemTimers(rendered) ==
    [id \in {rendered[i].id : i \in 1..Len(rendered)} |->
        IF id \in DOMAIN timers THEN timers[id] ELSE ToastTicks]

addToast(fn, message) ==
    LET shown == Append(toasts, [id |-> nextToastId, type |-> ToastType(fn),
                                 message |-> message])
    IN /\ nextToastId <= MaxToasts
       /\ toasts' = shown
       /\ nextToastId' = nextToastId + 1
       /\ timers' = ToastItemTimers(shown)

removeToast(id) ==
    LET shown == SelectSeq(toasts, LAMBDA t : t.id # id)
    IN /\ toasts' = shown
       /\ timers' = ToastItemTimers(shown)
       /\ UNCHANGED nextToastId

\* the body shared by the four helpers
Notify(fn, prefix, message) ==
    IF toastFunctions
    THEN /\ forwarded' = <<[fn |-> fn, message |-> message]>>
         /\ alerted' = <<>>
         /\ addToast(fn, message)
    ELSE /\ alerted' = <<(<<prefix, message>>)>>
         /\ forwarded' = <<>>
         /\ UNCHANGED <<toasts, timers, nextToastId>>

SetToastFunctions(functions) ==
    /\ functions # toastFunctions
    /\ toastFunctions' = functions
    /\ invoked' = NotInvoked
    /\ forwarded' = <<>>
    /\ alerted' = <<>>
    /\ UNCHANGED <<toasts, timers, nextToastId>>
    /\ UNCHANGED <<pageVars, apiVars, formVars>>

HandleApiError(error) ==
    /\ invoked' = [fn |-> "handleApiError", kind |-> error.kind, text |-> error.text]
    /\ Notify("showError", "Error: ", ErrorMessage(error))
    /\ UNCHANGED toastFunctions
    /\ UNCHANGED <<pageVars, apiVars, formVars>>

ShowSuccess(message) ==
    /\ invoked' = [fn |-> "showSuccess", kind |-> "string", text |-> message]
    /\ Notify("showSuccess", "Success: ", message)
    /\ UNCHANGED toastFunctions
    /\ UNCHANGED <<pageVars, apiVars, formVars>>

ShowInfo(message) ==
    /\ invoked' = [fn |-> "showInfo", kind |-> "string", text |-> message]
    /\ Notify("showInfo", "Info: ", message)
    /\ UNCHANGED toastFunctions
    /\ UNCHANGED <<pageVars, apiVars, formVars>>

\* variant: the alert is shown whether or not a surface is registered
ShowWarningAlwaysAlerts(message) ==
    /\ invoked' = [fn |-> "showWarning", kind |-> "string", text |-> message]
    /\ alerted' = <<(<<"Warning: ", message>>)>>
    /\ IF toastFunctions
       THEN /\ forwarded' = <<[fn |-> "showWarning", message |-> message]>>
            /\ addToast("showWarning", message)
       ELSE /\ forwarded' = <<>>
            /\ UNCHANGED <<toasts, timers, nextToastId>>
    /\ UNCHANGED toastFunctions
    /\ UNCHANGED <<pageVars, apiVars, formVars>>

ShowWarning(message) ==
    /\ invoked' = [fn |-> "showWarning", kind |-> "string", text |-> message]
    /\ Notify("showWarning", "Warning: ", message)
    /\ UNCHANGED toastFunctions
    /\ UNCHANGED <<pageVars, apiVars, formVars>>

\* time passes: every running timer comes one tick closer to firing; a timer
\* that is due fires before the clock moves on
Tick ==
    /\ DOMAIN timers # {}
    /\ \A id \in DOMAIN timers : timers[id] > 0
    /\ timers' = [id \in DOMAIN timers |-> timers[id] - 1]
    /\ invoked' = NotInvoked
    /\ forwarded' = <<>>
    /\ alerted' = <<>>
    /\ UNCHANGED <<toastFunctions, toasts, nextToastId>>
    /\ UNCHANGED <<pageVars, apiVars, formVars>>

\* the setTimeout callback of a toast: onClose(toast.id)
TimerFires(id) ==
    /\ id \in DOMAIN timers
    /\ timers[id] = 0
    /\ removeToast(id)
    /\ invoked' = NotInvoked
    /\ forwarded' = <<>>
    /\ alerted' = <<>>
    /\ UNCHANGED toastFunctions
    /\ UNCHANGED <<pageVars, apiVars, formVars>>

\* the close button of a toast: onClose(toast.id)
CloseToast(id) ==
    /\ id \in ToastIds
    /\ removeToast(id)
    /\ invoked' = NotInvoked
    /\ forwarded' = <<>>
    /\ alerted' = <<>>
    /\ UNCHANGED toastFunctions
    /\ UNCHANGED <<pageVars, apiVars, formVars>>

\* the module is loaded with toastFunctions = null
InitChannel ==
    /\ PageInit
    /\ ApiIdle
    /\ FormsIdle
    /\ toastFunctions = FALSE
    /\ invoked = NotInvoked
    /\ forwarded = <<>>
    /\ alerted = <<>>
    /\ toasts = <<>>
    /\ timers = <<>>
    /\ nextToastId = 1

NextChannel ==
    \/ \E functions \in BOOLEAN : SetToastFunctions(functions)
    \/ \E error \in Errors : HandleApiError(error)
    \/ \E message \in Messages : ShowSuccess(message)
    \/ \E message \in Messages : ShowInfo(message)
    \/ \E message \in Messages : ShowWarning(message)
    \/ Tick
    \/ \E id \in DOMAIN timers : TimerFires(id)
    \/ \E id \in ToastIds : CloseToast(id)

SpecChannel == InitChannel /\ [][NextChannel]_vars

\* the event loop runs a timer callback that is due, and time passes
SpecChannelFair ==
    /\ SpecChannel
    /\ WF_vars(Tick)
    /\ \A id \in 1..MaxToasts : WF_vars(TimerFires(id))

\* ------------------------------------------------- API client under test
\* One call of one client function on one response.  The responses cover
\* every status the functions distinguish and every shape of body.
Statuses == {200, 400, 401, 403, 404, 409, 500}

ObjectPayloads == {Object("e1", ""), Object("", "E"), Object("", "")}

Payloads == {Array(<<"x1", "x2">>), Array(<<>>)} \cup ObjectPayloads

Texts ==
    {EmptyText, GarbageText}
        \cup {Json(Direct(payload)) : payload \in Payloads}
        \cup {Json(Enveloped(payload)) : payload \in Payloads}
        \cup {Json(Document(Object("", ""), Body("garbage", Object("", ""))))}
        \cup {Json(Document(Object("", ""), Body("object", payload))) :
                 payload \in ObjectPayloads}

ApiFunctions ==
    {"getBooks", "getBook", "createBook", "getReadingLists",
     "createReadingList", "updateReadingList", "deleteReadingList"}

Calls == [fn : ApiFunctions, response : [status : Statuses, text : Texts]]

\* the client function named fn, applied to a response
Apply(fn, response) ==
    CASE fn = "getBooks" -> getBooksOn(response)
      [] fn = "getBook" -> getBookOn(response)
      [] fn = "createBook" -> createBookOn(response)
      [] fn = "getReadingLists" -> getReadingListsOn(response)
      [] fn = "createReadingList" -> createReadingListOn(response)
      [] fn = "updateReadingList" -> updateReadingListOn(response)
      [] fn = "deleteReadingList" -> deleteReadingListOn(response)

Called(fn) ==
    /\ call.fn = fn
    /\ outcome = NoOutcome
    /\ UNCHANGED <<call, session, pageVars, channelVars, formVars>>

GetBooks ==
    /\ Called("getBooks")
    /\ request' = Fetch(NoHeaders)
    /\ outcome' = getBooksOn(call.response)

GetBook ==
    /\ Called("getBook")
    /\ request' = Fetch(NoHeaders)
    /\ outcome' = getBookOn(call.response)

CreateBook ==
    /\ Called("createBook")
    /\ request' = Fetch(getAuthHeaders(session))
    /\ outcome' = createBookOn(call.response)

GetReadingLists ==
    /\ Called("getReadingLists")
    /\ request' = Fetch(getAuthHeaders(session))
    /\ outcome' = getReadingListsOn(call.response)

CreateReadingList ==
    /\ Called("createReadingList")
    /\ request' = Fetch(getAuthHeaders(session))
    /\ outcome' = createReadingListOn(call.response)

UpdateReadingList ==
    /\ Called("updateReadingList")
    /\ request' = Fetch(getAuthHeaders(session))
    /\ outcome' = updateReadingListOn(call.response)

DeleteReadingList ==
    /\ Called("deleteReadingList")
    /\ request' = Fetch(getAuthHeaders(session))
    /\ outcome' = deleteReadingListOn(call.response)

InitApi ==
    /\ PageInit
    /\ ChannelIdle
    /\ FormsIdle
    /\ call \in Calls
    /\ outcome = NoOutcome
    /\ session \in Sessions
    /\ request = NoRequest

NextApi ==
    \/ GetBooks
    \/ GetBook
    \/ CreateBook
    \/ GetReadingLists
    \/ CreateReadingList
    \/ UpdateReadingList
    \/ DeleteReadingList

SpecApi == InitApi /\ [][NextApi]_vars

\* ------------------------------------------------------------ signup page
\* The signup form and its verification step.  What the user types is drawn
\* from a few values of each kind; the validators of @/utils/validation are
\* known here by their names and by the messages validate() shows for them.
FullNames == {"", "Ann"}

Emails == {"", "ann", "ann@x.io"}

Passwords == {"", "short", "Passw0rd1", "Passw0rd2"}

\* the verification code as typed, character by character
Codes == {<<>>, <<" ">>, <<"1", "2">>}

validateRequired(value) == value # ""

validateEmail(value) == value \in {"ann@x.io"}

\* at least 8 characters with uppercase, lowercase, and number
validatePassword(value) == value \in {"Passw0rd1", "Passw0rd2"}

\* validate(): the fields of newErrors
validate(page) ==
    {field \in {"name"} : ~validateRequired(page.name)}
        \cup {field \in {"email"} :
                  ~validateRequired(page.email) \/ ~validateEmail(page.email)}
        \cup {field \in {"password"} :
                  ~validateRequired(page.password) \/ ~validatePassword(page.password)}
        \cup {field \in {"confirmPassword"} : page.password # page.confirmPassword}

\* the page is on screen until navigate('/login') has run
SignupRendered == navigation # "login"

offSignup == <<pageVars, channelVars, apiVars, booksVars>>

\* the onChange of the four inputs of the signup step
SetField(field, value) ==
    /\ SignupRendered /\ ~signupPage.needsVerification
    /\ value # signupPage[field]
    /\ signupPage' = [signupPage EXCEPT ![field] = value]
    /\ notified' = Silent
    /\ UNCHANGED <<auth, navigation, offSignup>>

SetVerificationCode(value) ==
    /\ SignupRendered /\ signupPage.needsVerification
    /\ value # signupPage.verificationCode
    /\ signupPage' = [signupPage EXCEPT !.verificationCode = value, !.errors = {}]
    /\ notified' = Silent
    /\ UNCHANGED <<auth, navigation, offSignup>>

\* the "Back to signup" button of the verification step
BackToSignup ==
    /\ SignupRendered /\ signupPage.needsVerification
    /\ signupPage' = [signupPage EXCEPT !.needsVerification = FALSE,
                                        !.verificationCode = <<>>,
                                        !.errors = {}]
    /\ notified' = Silent
    /\ UNCHANGED <<auth, navigation, offSignup>>

\* variant: signup is called whatever validate() returns
HandleSubmitIgnoresValidation ==
    /\ SignupRendered /\ ~signupPage.isLoading
    /\ IF signupPage.needsVerification
       THEN IF Trim(signupPage.verificationCode) = <<>>
            THEN /\ signupPage' = [signupPage EXCEPT !.errors = {"verificationCode"}]
                 /\ UNCHANGED auth
            ELSE /\ signupPage' = [signupPage EXCEPT !.isLoading = TRUE]
                 /\ auth' = [NoAuth EXCEPT !.fn = "confirmSignUp",
                                           !.state = "pending",
                                           !.email = signupPage.email,
                                           !.code = signupPage.verificationCode]
       ELSE /\ signupPage' = [signupPage EXCEPT !.errors = validate(signupPage),
                                                !.isLoading = TRUE]
            /\ auth' = [NoAuth EXCEPT !.fn = "signup",
                                      !.state = "pending",
                                      !.email = signupPage.email,
                                      !.password = signupPage.password,
                                      !.name = signupPage.name]
    /\ notified' = Silent
    /\ UNCHANGED <<navigation, offSignup>>

\* handleSubmit up to its await.  The submit button is disabled while
\* isLoading, which also stops the implicit submission of the form.
HandleSubmit ==
    /\ SignupRendered /\ ~signupPage.isLoading
    /\ IF signupPage.needsVerification
       THEN IF Trim(signupPage.verificationCode) = <<>>
            THEN /\ signupPage' = [signupPage EXCEPT !.errors = {"verificationCode"}]
                 /\ UNCHANGED auth
            ELSE /\ signupPage' = [signupPage EXCEPT !.isLoading = TRUE]
                 /\ auth' = [NoAuth EXCEPT !.fn = "confirmSignUp",
                                           !.state = "pending",
                                           !.email = signupPage.email,
                                           !.code = signupPage.verificationCode]
       ELSE IF validate(signupPage) # {}
            THEN /\ signupPage' = [signupPage EXCEPT !.errors = validate(signupPage)]
                 /\ UNCHANGED auth
            ELSE /\ signupPage' = [signupPage EXCEPT !.errors = {}, !.isLoading = TRUE]
                 /\ auth' = [NoAuth EXCEPT !.fn = "signup",
                                           !.state = "pending",
                                           !.email = signupPage.email,
                                           !.password = signupPage.password,
                                           !.name = signupPage.name]
    /\ notified' = Silent
    /\ UNCHANGED <<navigation, offSignup>>

\* the identity service answers the call: it succeeds or it rejects
AuthResponds ==
    /\ auth.state = "pending"
    /\ \E answer \in {"ok", "failed"} : auth' = [auth EXCEPT !.state = answer]
    /\ notified' = Silent
    /\ UNCHANGED <<signupPage, navigation, offSignup>>

SignupDone ==
    /\ auth.fn = "signup" /\ auth.state = "ok"
    /\ signupPage' = [signupPage EXCEPT !.needsVerification = TRUE, !.isLoading = FALSE]
    /\ auth' = NoAuth
    /\ notified' = Silent
    /\ UNCHANGED <<navigation, offSignup>>

SignupFailed ==
    /\ auth.fn = "signup" /\ auth.state = "failed"
    /\ signupPage' = [signupPage EXCEPT !.isLoading = FALSE]
    /\ auth' = NoAuth
    /\ notified' = handleApiError("failed")
    /\ UNCHANGED <<navigation, offSignup>>

\* showSuccess, then setTimeout(() => navigate('/login'), 1500)
ConfirmSignUpDone ==
    /\ auth.fn = "confirmSignUp" /\ auth.state = "ok"
    /\ signupPage' = [signupPage EXCEPT !.isLoading = FALSE]
    /\ auth' = NoAuth
    /\ notified' = showSuccess("Email verified successfully! You can now login.")
    /\ navigation' = IF navigation = "none" THEN "scheduled" ELSE navigation
    /\ UNCHANGED offSignup

ConfirmSignUpFailed ==
    /\ auth.fn = "confirmSignUp" /\ auth.state = "failed"
    /\ signupPage' = [signupPage EXCEPT !.isLoading = FALSE]
    /\ auth' = NoAuth
    /\ notified' = handleApiError("failed")
    /\ UNCHANGED <<navigation, offSignup>>

\* the timer of a verified signup fires
NavigateToLogin ==
    /\ navigation = "scheduled"
    /\ navigation' = "login"
    /\ notified' = Silent
    /\ UNCHANGED <<signupPage, auth, offSignup>>

InitSignup ==
    /\ PageInit
    /\ ChannelIdle
    /\ ApiIdle
    /\ FormsIdle

NextSignup ==
    \/ \E value \in FullNames : SetField("name", value)
    \/ \E value \in Emails : SetField("email", value)
    \/ \E value \in Passwords : SetField("password", value)
    \/ \E value \in Passwords : SetField("confirmPassword", value)
    \/ \E value \in Codes : SetVerificationCode(value)
    \/ BackToSignup
    \/ HandleSubmit
    \/ AuthResponds
    \/ SignupDone
    \/ SignupFailed
    \/ ConfirmSignUpDone
    \/ ConfirmSignUpFailed
    \/ NavigateToLogin

SpecSignup == InitSignup /\ [][NextSignup]_vars

\* -------------------------------------------------------------- books page
\* The catalog page: loadBooks on mount, and the effect that recomputes
\* filteredBooks from books, searchQuery and sortBy after every render in
\* which one of them has changed.  Texts are sequences of characters.
Book(id, title, author, genre, rating, publishedYear) ==
    [id |-> id, title |-> title, author |-> author, genre |-> genre,
     rating |-> rating, publishedYear |-> publishedYear]

AllBooks ==
    { Book(1, <<"B", "a">>, <<"c">>, <<"a">>, 5, 1),
      Book(2, <<"a", "b">>, <<"A">>, <<"b">>, 3, 3),
      Book(3, <<"c">>, <<"b">>, <<"A", "b">>, 5, 2),
      Book(4, <<"a", "B">>, <<"A", "b">>, <<"c">>, 4, 3) }

\* what the backend may hold: some of the books, in some order
Shelves ==
    {shelved \in UNION {[1..n -> AllBooks] : n \in 0..Cardinality(AllBooks)} :
        \A i, j \in 1..Len(shelved) : shelved[i] = shelved[j] => i = j}

\* what the user types into the search box
Queries == {<<>>, <<" ">>, <<"a">>, <<"A", "B">>, <<"c">>, <<" ", "a">>}

\* the options of the sort select
SortValues == {"title", "author", "rating", "year"}

\* String.prototype.toLowerCase
LowerCase(c) == CASE c = "A" -> "a" [] c = "B" -> "b" [] OTHER -> c

toLowerCase(text) == [i \in 1..Len(text) |-> LowerCase(text[i])]

\* String.prototype.includes
includes(text, part) ==
    \E i \in 0..(Len(text) - Len(part)) : SubSeq(text, i + 1, i + Len(part)) = part

\* String.prototype.localeCompare: letters are compared first without
\* their case; texts that differ in case only have the lower case first
Letter(c) ==
    CASE LowerCase(c) = " " -> 0
      [] LowerCase(c) = "a" -> 1
      [] LowerCase(c) = "b" -> 2
      [] OTHER -> 3

UpperCase(c) == IF LowerCase(c) # c THEN 1 ELSE 0

RECURSIVE Lexicographic(_, _)
Lexicographic(x, y) ==
    IF x = <<>> /\ y = <<>> THEN 0
    ELSE IF x = <<>> THEN -1
    ELSE IF y = <<>> THEN 1
    ELSE IF Head(x) < Head(y) THEN -1
    ELSE IF Head(x) > Head(y) THEN 1
    ELSE Lexicographic(Tail(x), Tail(y))

localeCompare(x, y) ==
    LET letters == Lexicographic([i \in 1..Len(x) |-> Letter(x[i])],
                                 [i \in 1..Len(y) |-> Letter(y[i])])
    IN IF letters # 0 THEN letters
       ELSE Lexicographic([i \in 1..Len(x) |-> UpperCase(x[i])],
                          [i \in 1..Len(y) |-> UpperCase(y[i])])

\* the comparator sortBooks passes to sort for each sort value
Comparator(a, b, sortValue) ==
    CASE sortValue = "title" -> localeCompare(a.title, b.title)
      [] sortValue = "author" -> localeCompare(a.author, b.author)
      [] sortValue = "rating" -> b.rating - a.rating
      [] sortValue = "year" -> b.publishedYear - a.publishedYear
      [] OTHER -> 0

\* Array.prototype.sort is stable: an element goes behind the elements that
\* do not compare greater than it
RECURSIVE InsertSorted(_, _, _)
InsertSorted(sorted, book, sortValue) ==
    IF sorted = <<>> THEN <<book>>
    ELSE IF Comparator(sorted[Len(sorted)], book, sortValue) <= 0
         THEN Append(sorted, book)
         ELSE Append(InsertSorted(SubSeq(sorted, 1, Len(sorted) - 1), book, sortValue),
                     sorted[Len(sorted)])

RECURSIVE sortBooks(_, _)
sortBooks(booksToSort, sortValue) ==
    IF booksToSort = <<>> THEN <<>>
    ELSE InsertSorted(sortBooks(SubSeq(booksToSort, 1, Len(booksToSort) - 1), sortValue),
                      booksToSort[Len(booksToSort)], sortValue)

\* variant: the fields are searched as they are written, without toLowerCase
MatchesAsWritten(book, lowercaseQuery) ==
    \/ includes(book.title, lowercaseQuery)
    \/ includes(book.author, lowercaseQuery)
    \/ includes(book.genre, lowercaseQuery)

\* the predicate of result.filter
Matches(book, lowercaseQuery) ==
    \/ includes(toLowerCase(book.title), lowercaseQuery)
    \/ includes(toLowerCase(book.author), lowercaseQuery)
    \/ includes(toLowerCase(book.genre), lowercaseQuery)

\* the effect on [books, searchQuery, sortBy]: the value given to
\* setFilteredBooks
FilterAndSort(page) ==
    LET result == IF Trim(page.searchQuery) # <<>>
                  THEN SelectSeq(page.books,
                           LAMBDA book : Matches(book, toLowerCase(page.searchQuery)))
                  ELSE page.books
    IN sortBooks(result, page.sortBy)

\* a render, followed by the effect when one of its dependencies changed
Rendered(page) == [page EXCEPT !.filteredBooks = FilterAndSort(page)]

offBooks == <<pageVars, channelVars, apiVars, signupVars>>

\* mount effect: loadBooks up to its await
LoadBooks ==
    /\ fetching = "none"
    /\ fetching' = "pending"
    /\ booksPage' = Rendered([booksPage EXCEPT !.isLoading = TRUE])
    /\ notified' = Silent
    /\ UNCHANGED <<shelf, offBooks>>

\* the backend answers getBooks with its books, or the call fails
BooksRespond ==
    /\ fetching = "pending"
    /\ \E answer \in {"ok", "failed"} : fetching' = answer
    /\ notified' = Silent
    /\ UNCHANGED <<booksPage, shelf, offBooks>>

LoadBooksDone ==
    /\ fetching = "ok"
    /\ fetching' = "done"
    /\ booksPage' = Rendered([booksPage EXCEPT !.books = shelf, !.isLoading = FALSE])
    /\ notified' = Silent
    /\ UNCHANGED <<shelf, offBooks>>

LoadBooksFailed ==
    /\ fetching = "failed"
    /\ fetching' = "done"
    /\ booksPage' = [booksPage EXCEPT !.isLoading = FALSE]
    /\ notified' = handleApiError("Failed to fetch books")
    /\ UNCHANGED <<shelf, offBooks>>

\* BookSearch calls onSearch with the query
HandleSearch(query) ==
    /\ fetching = "done" /\ ~booksPage.isLoading
    /\ query # booksPage.searchQuery
    /\ booksPage' = Rendered([booksPage EXCEPT !.searchQuery = query])
    /\ notified' = Silent
    /\ UNCHANGED <<shelf, fetching, offBooks>>

\* the onChange of the sort select
HandleSort(value) ==
    /\ fetching = "done" /\ ~booksPage.isLoading
    /\ value # booksPage.sortBy
    /\ booksPage' = Rendered([booksPage EXCEPT !.sortBy = value])
    /\ notified' = Silent
    /\ UNCHANGED <<shelf, fetching, offBooks>>

InitBooks ==
    /\ PageInit
    /\ ChannelIdle
    /\ ApiIdle
    /\ signupPage = SignupMounted
    /\ auth = NoAuth
    /\ navigation = "none"
    /\ booksPage = BooksMounted
    /\ shelf \in Shelves
    /\ fetching = "none"
    /\ notified = <<>>

NextBooks ==
    \/ LoadBooks
    \/ BooksRespond
    \/ LoadBooksDone
    \/ LoadBooksFailed
    \/ \E query \in Queries : HandleSearch(query)
    \/ \E value \in SortValues : HandleSort(value)

SpecBooks == InitBooks /\ [][NextBooks]_vars

\* ------------------------------------------------------------- properties
\* a request that leaves `inflight` in this step: its handler has continued
Delivered(r) == r \in inflight /\ Returned(r) /\ r \notin inflight'

\* the requests sent in this step
NewlySent == {r \in inflight' \ inflight : Pending(r)}

\* a request of kind op is sent in this step
Sending(op) == \E r \in NewlySent : r.op = op

ErrorNotified == Len(emitted') = 1 /\ emitted'[1].type \in {"error"}

\* C1: a removeBookFromList whose updateReadingList request fails changes
\* neither the materialized view (listBooks) nor the selected list nor the
\* cached lists, in the step that sends the request as in the step that
\* handles the failure, and the failure emits an error notification.
C1_FailedRemoveKeepsView ==
    [][ /\ Sending("updateReadingList") =>
             /\ listBooks' = listBooks
             /\ selectedList' = selectedList
             /\ lists' = lists
        /\ \A r \in inflight :
             (Delivered(r) /\ r.op = "updateReadingList"
                /\ updateReadingList(r.status).throws) =>
                 /\ listBooks' = listBooks
                 /\ selectedList' = selectedList
                 /\ lists' = lists
                 /\ ErrorNotified
      ]_vars

\* a failed removal has just been reported while its book is still displayed
C1_Witness ==
    /\ emitted = handleApiError("Failed to update reading list")
    /\ selectedList # NoList
    /\ listBooks # <<>>
    /\ removingBookId = NoBook

\* C2: whenever a list is selected, the materialized books are among the
\* selected list's bookIds.
C2_ViewWithinSelectedList ==
    selectedList # NoList => Range(listBooks) \subseteq Range(selectedList.bookIds)

\* C3: a book resolution that completes for a list other than the one now
\* selected (a stale resolution) does not overwrite the materialized books.
C3_StaleResolutionIgnored ==
    [][ \A r \in inflight :
            (Delivered(r) /\ r.op = "getBooks" /\ selectedList # NoList
               /\ r.listId # selectedList.id) => listBooks' = listBooks
      ]_vars

\* the books of the statuses answered 200, in request order
Resolved200(r) ==
    LET idx == SelectSeq([i \in 1..Len(r.bookIds) |-> i], LAMBDA i : r.statuses[i] = 200)
    IN [k \in 1..Len(idx) |-> r.bookIds[idx[k]]]

\* C4: when a batch has at least one identifier answered 404 and none that
\* failed, loadListBooks sets the view to exactly the books that resolved and
\* emits no notification.
C4_NotFoundIsDroppedSilently ==
    [][ \A r \in inflight :
            (Delivered(r) /\ r.op = "getBooks"
               /\ (\E i \in 1..Len(r.statuses) : r.statuses[i] = 404)
               /\ (\A i \in 1..Len(r.statuses) : r.statuses[i] \in {200, 404})) =>
                 /\ listBooks' = Resolved200(r)
                 /\ emitted' = <<>>
                 /\ isLoadingBooks' = FALSE
      ]_vars

\* the list with a missing book is shown with the two books that exist
C4_Witness ==
    /\ selectedList # NoList
    /\ selectedList.bookIds = <<"b1", "b2", "b3">>
    /\ listBooks = <<"b1", "b3">>
    /\ ~isLoadingBooks
    /\ emitted = <<>>
    /\ inflight = {}

\* C5: when any identifier of a batch fails (a status that is neither 2xx nor
\* 404), loadListBooks leaves the view as it was and emits exactly one error
\* notification, however many identifiers failed.
C5_OneFailureFailsTheBatch ==
    [][ \A r \in inflight :
            (Delivered(r) /\ r.op = "getBooks"
               /\ (\E i \in 1..Len(r.statuses) : r.statuses[i] \notin {200, 404})) =>
                 /\ listBooks' = listBooks
                 /\ Len(emitted') = 1
                 /\ emitted'[1].type = "error"
      ]_vars

\* a batch has just failed and the view still holds the books it held before
C5_Witness ==
    /\ emitted = handleApiError("Failed to fetch book")
    /\ selectedList # NoList
    /\ listBooks # <<>>

\* C6: a deleteReadingList request is sent only in the step in which the
\* pending confirmation for that list resolves true; opening the dialog sends
\* nothing, and a confirmation that resolves false sends nothing and leaves
\* the cache, the selection and the materialized books unchanged.
C6_DeleteOnlyAfterConfirm ==
    [][ /\ \A r \in NewlySent :
             r.op = "deleteReadingList" =>
                 /\ resolved' = <<TRUE>>
                 /\ dialog.isOpen
                 /\ dialog.listId = r.listId
        /\ (dialog'.isOpen /\ ~dialog.isOpen) => (inflight' = inflight /\ sent' = sent)
        /\ resolved' = <<FALSE>> =>
             /\ inflight' = inflight
             /\ sent' = sent
             /\ lists' = lists
             /\ selectedList' = selectedList
             /\ listBooks' = listBooks
      ]_vars

\* the user has just declined: nothing is in flight and both lists are cached
C6_Witness ==
    /\ resolved = <<FALSE>>
    /\ inflight = {}
    /\ Ids(lists) = {1, 2}
    /\ Ids(db) = {1, 2}

\* C7: when a delete succeeds, the list is gone from the cache, every other
\* cached list is kept, and if the deleted list is the selection at that time
\* the selection is cleared and the materialized books are emptied.
C7_DeleteSuccessUpdatesCache ==
    [][ \A r \in inflight :
            (Delivered(r) /\ r.op = "deleteReadingList" /\ ResponseOk(r.status)) =>
                 /\ r.listId \notin Ids(lists')
                 /\ lists' = SelectSeq(lists, LAMBDA l : l.id # r.listId)
                 /\ selectedList.id = r.listId =>
                        (selectedList' = NoList /\ listBooks' = <<>>)
      ]_vars

\* C8: when the request of loadLists, createList or deleteList fails, the
\* cached lists are unchanged and an error notification is emitted.
C8_FailureKeepsCache ==
    [][ \A r \in inflight :
            (Delivered(r)
               /\ r.op \in {"getReadingLists", "createReadingList", "deleteReadingList"}
               /\ ~ResponseOk(r.status)) =>
                 /\ lists' = lists
                 /\ ErrorNotified
      ]_vars

\* a delete has just failed and the cache still holds the lists
C8_Witness ==
    /\ emitted = handleApiError("Failed to delete reading list")
    /\ Ids(lists) = {1, 2}

IsBlank(name) == \A i \in 1..Len(name) : name[i] = " "

\* C9: a createReadingList request is sent only for a name with a character
\* that is not whitespace; the rejection of a blank name sends nothing and
\* leaves the cache, the create modal and the form fields unchanged.
C9_BlankNameRejectedLocally ==
    [][ /\ Sending("createReadingList") => ~IsBlank(newListName)
        /\ \A r \in NewlySent : r.op = "createReadingList" => ~IsBlank(r.name)
        /\ emitted' = alert("Please enter a list name") =>
             /\ IsBlank(newListName)
             /\ inflight' = inflight
             /\ sent' = sent
             /\ lists' = lists
             /\ isModalOpen' = isModalOpen
             /\ newListName' = newListName
             /\ newListDescription' = newListDescription
      ]_vars

\* a whitespace-only name has just been rejected
C9_Witness ==
    /\ emitted = alert("Please enter a list name")
    /\ newListName = <<" ">>
    /\ isModalOpen
    /\ inflight = {}

\* C10: when a create succeeds, the cache becomes the cache of that moment
\* with the returned list appended, and a success notification is emitted.
C10_CreateAppendsToCurrentCache ==
    [][ \A r \in inflight :
            (Delivered(r) /\ r.op = "createReadingList" /\ ResponseOk(r.status)) =>
                 /\ lists' = Append(lists, r.data[1])
                 /\ emitted' = showSuccess("Reading list created successfully!")
      ]_vars

\* the operations that change a reading list on the backend
MutatingOps == {"createReadingList", "updateReadingList", "deleteReadingList"}

\* this step ends a createList, removeBookFromList or deleteList: its request
\* is handed back to the handler, the user declines the delete, or the create
\* is rejected with the validation alert
OperationEnds ==
    \/ \E r \in inflight : Delivered(r) /\ r.op \in MutatingOps
    \/ resolved' = <<FALSE>>
    \/ (Len(emitted') = 1 /\ emitted'[1].type = "alert")

\* C11 as stated: every step that ends a createList, removeBookFromList or
\* deleteList emits exactly one notification, of type success or error.
C11_EveryOperationEndsNotified ==
    [][ OperationEnds =>
            (Len(emitted') = 1 /\ emitted'[1].type \in {"success", "error"})
      ]_vars

\* C11: every createList, removeBookFromList or deleteList whose request was
\* sent ends in exactly one notification, a success notification when the
\* request succeeded and an error notification when it failed; a delete the
\* user declined ends in no notification, and a create rejected for a blank
\* name ends in the validation alert only.
C11_SentOperationEndsNotified ==
    [][ /\ \A r \in inflight :
             (Delivered(r) /\ r.op \in MutatingOps) =>
                 /\ Len(emitted') = 1
                 /\ emitted'[1].type = IF ResponseOk(r.status) THEN "success" ELSE "error"
        /\ resolved' = <<FALSE>> => emitted' = <<>>
        /\ \A i \in 1..Len(emitted') :
             emitted'[i].type = "alert" =>
                 /\ emitted' = alert("Please enter a list name")
                 /\ IsBlank(newListName)
                 /\ inflight' = inflight
      ]_vars

\* a removal has just ended with its success notification
C11_Witness ==
    /\ emitted = showSuccess("Book removed from reading list successfully!")
    /\ removingBookId = NoBook
    /\ inflight = {}

\* C12: when a removeBookFromList succeeds, the selected list becomes the
\* list the server returned, the cached entry with that identifier becomes
\* that same list, the removed book is not in the materialized view, and
\* every other cached list is what it was before the completion.
C12_RemoveSuccessReplacesOneEntry ==
    [][ \A r \in inflight :
            (Delivered(r) /\ r.op = "updateReadingList" /\ ResponseOk(r.status)) =>
                 /\ selectedList' = r.data[1]
                 /\ \A l \in Range(lists') : l.id = r.listId => l = r.data[1]
                 /\ r.bookId \notin Range(listBooks')
                 /\ SelectSeq(lists', LAMBDA l : l.id # r.listId)
                        = SelectSeq(lists, LAMBDA l : l.id # r.listId)
      ]_vars

\* the bookIds the cache ls holds for the list id
CachedBookIds(ls, id) == ls[CHOOSE i \in 1..Len(ls) : ls[i].id = id].bookIds

\* this step is the completion of a successful removeBookFromList on list id
RemoveCompletes(id) ==
    \E r \in inflight :
        Delivered(r) /\ r.op = "updateReadingList" /\ ResponseOk(r.status) /\ r.listId = id

\* a step of handleListClick / loadListBooks leaves the stored bookIds alone:
\* the click selects the list as the cache holds it, and the resolution
\* changes neither the selected list nor the cache nor the backend
ResolutionKeepsStoredIds ==
    /\ \A r \in NewlySent :
          r.op = "getBooks" =>
              /\ lists' = lists
              /\ selectedList' \in Range(lists)
              /\ r.bookIds = selectedList'.bookIds
    /\ \A r \in inflight :
          (Delivered(r) /\ r.op = "getBooks") =>
              /\ selectedList' = selectedList
              /\ lists' = lists
              /\ db' = db

\* C13: resolving the book identifiers of a list changes the stored bookIds
\* neither in the selected list nor in the cache, and the bookIds the cache or
\* the selection holds for a list change only in the step that completes a
\* successful removal on that list.
C13_StoredIdsChangeOnlyByRemove ==
    [][ /\ ResolutionKeepsStoredIds
        /\ \A id \in Ids(lists) \cap Ids(lists') :
              CachedBookIds(lists', id) # CachedBookIds(lists, id) => RemoveCompletes(id)
        /\ (selectedList # NoList /\ selectedList'.id = selectedList.id
               /\ selectedList'.bookIds # selectedList.bookIds) =>
                   RemoveCompletes(selectedList.id)
      ]_vars

\* the part of C13 about book resolution alone, in every step of the page
C13_ResolutionFrame == [][ResolutionKeepsStoredIds]_vars

\* C14: the promise of confirm() is resolved true exactly in the steps in
\* which the dialog invokes onConfirm and false exactly in the steps in which
\* it invokes onCancel (Cancel button or backdrop), a step resolves at most
\* one promise, and every caller suspended in confirm() is the one the dialog
\* slot will resolve: no request is left without its resolution.
C14_ExactlyOneResolution ==
    [][ /\ resolved' = <<TRUE>> <=> gesture' = "onConfirm"
        /\ resolved' = <<FALSE>> <=> gesture' = "onCancel"
        /\ Len(resolved') <= 1
        /\ Len(resolved') = 1 => (dialog.isOpen /\ ~dialog'.isOpen)
        /\ awaiting' = IF dialog'.isOpen THEN 1 ELSE 0
      ]_vars

\* C15: when loadLists succeeds after createList has succeeded, then for every
\* created list the backend returns, the cache holds an entry with that
\* identifier whose name and description are what was typed into the form
\* when it was submitted and whose bookIds are empty.
C15_CreatedListIsLoaded ==
    [][ \A r \in inflight :
            (Delivered(r) /\ r.op = "getReadingLists" /\ ResponseOk(r.status)) =>
                \A c \in created :
                    c.id \in Ids(r.data) =>
                        \E i \in 1..Len(lists') :
                            /\ lists'[i].id = c.id
                            /\ lists'[i].name = c.name
                            /\ lists'[i].description = c.description
                            /\ lists'[i].bookIds = <<>>
      ]_vars

\* a list was created with a description, the page was mounted again and the
\* second loadLists has put the created list into the cache
C15_Witness ==
    /\ created = {[id |-> 3, name |-> <<" ", "a">>, description |-> <<"d">>]}
    /\ PageRendered
    /\ sent = 3
    /\ inflight = {}
    /\ Len(lists) = 3
    /\ lists[3] = ReadingList(3, <<" ", "a">>, <<"d">>, <<>>)

\* the surface function and the alert prefix of each helper
SurfaceFn(fn) == IF fn = "handleApiError" THEN "showError" ELSE fn

AlertPrefix(fn) ==
    CASE fn = "handleApiError" -> "Error: "
      [] fn = "showSuccess" -> "Success: "
      [] fn = "showInfo" -> "Info: "
      [] fn = "showWarning" -> "Warning: "

\* the message a helper has to deliver for its argument
MessageToDeliver(inv) ==
    IF inv.fn = "handleApiError" /\ inv.kind = "other"
    THEN "An unexpected error occurred"
    ELSE inv.text

\* C16: a call of showSuccess, handleApiError (showError), showInfo or
\* showWarning delivers its message exactly once: as one call of the matching
\* function of the surface and no alert when a surface is registered at the
\* time of the call, as one alert and no call of the surface otherwise.
C16_DeliveredExactlyOnce ==
    [][ invoked'.fn # "none" =>
            IF toastFunctions
            THEN /\ forwarded' = <<[fn |-> SurfaceFn(invoked'.fn),
                                    message |-> MessageToDeliver(invoked')]>>
                 /\ alerted' = <<>>
            ELSE /\ alerted' = <<(<<AlertPrefix(invoked'.fn), MessageToDeliver(invoked')>>)>>
                 /\ forwarded' = <<>>
      ]_vars

\* with no surface registered, an error that is not an Error or a string has
\* just been shown as an alert
C16_Witness ==
    /\ ~toastFunctions
    /\ invoked = [fn |-> "handleApiError", kind |-> "other", text |-> ""]
    /\ alerted = <<(<<"Error: ", "An unexpected error occurred">>)>>
    /\ forwarded = <<>>

Ended == outcome.state # "none"

\* the structured {error} string a response carries, directly or in the body
\* string of the envelope; "" when it carries none
CarriedError(text) ==
    IF ~Parses(text) THEN ""
    ELSE IF text.doc.body.kind = "json" THEN text.doc.body.error
    ELSE IF text.doc.body.kind = "none" THEN text.doc.error
    ELSE ""

\* an envelope whose body is an object rather than a JSON-encoded string: a
\* shape only some of the functions decode
HasObjectBody(text) == Parses(text) /\ text.doc.body.kind = "object"

\* the fixed message of each client function for each failure status
Fallback(fn, status) ==
    CASE fn = "getBooks" -> "Failed to fetch books"
      [] fn = "getBook" -> "Failed to fetch book"
      [] fn = "getReadingLists" -> "Failed to fetch reading lists"
      [] fn = "createReadingList" -> "Failed to create reading list"
      [] fn = "createBook" ->
            (CASE status = 401 -> "Unauthorized: Please login again"
               [] status = 403 -> "Forbidden: Admin access required"
               [] status = 400 -> "Invalid request: Missing required fields"
               [] status = 409 -> "Book with this id already exists"
               [] OTHER -> "Failed to create book")
      [] fn = "updateReadingList" ->
            (CASE status = 401 -> "Unauthorized: Please login again"
               [] status = 404 -> "Reading list not found"
               [] status = 400 -> "Invalid request"
               [] OTHER -> "Failed to update reading list")
      [] fn = "deleteReadingList" ->
            (CASE status = 401 -> "Unauthorized: Please login again"
               [] status = 404 -> "Reading list not found"
               [] status = 400 -> "Invalid request"
               [] OTHER -> "Failed to delete reading list")

\* a call that fails with its status; getBook treats 404 as "no such book"
FailsWithStatus ==
    /\ Ended
    /\ ~ResponseOk(call.response.status)
    /\ ~(call.fn = "getBook" /\ call.response.status = 404)

\* C18: a call that fails with a non-2xx status throws an Error whose message
\* is the {error} string the response carries, directly or enveloped, when
\* there is one, and the fixed message of the function for that status
\* otherwise.
C18_ErrorTextPreferred ==
    (FailsWithStatus /\ ~HasObjectBody(call.response.text)) =>
        /\ outcome.state = "threw"
        /\ outcome.kind = "Error"
        /\ outcome.message =
              IF CarriedError(call.response.text) # ""
              THEN CarriedError(call.response.text)
              ELSE Fallback(call.fn, call.response.status)

\* the payload a function expects: an array for the two list endpoints, an
\* object for the others
Expects(fn, payload) ==
    IF fn \in {"getBooks", "getReadingLists"} THEN payload.t = "array"
    ELSE payload.t = "object"

\* the response of the call under test carries its payload directly
DirectPayloads ==
    {payload \in Payloads :
        /\ Expects(call.fn, payload)
        /\ call.response.text = Json(Direct(payload))}

\* C19: a call that got a payload directly as JSON on a success status has
\* the result the same function has for the same payload in the envelope.
C19_EnvelopeGivesSameResult ==
    (Ended /\ ResponseOk(call.response.status)) =>
        \A payload \in DirectPayloads :
            outcome = Apply(call.fn, Response(call.response.status,
                                              Json(Enveloped(payload))))

\* C20: a call whose response body is empty or not JSON throws the fixed
\* message of the function for a failure status, and returns, without a
\* decode error, for a success status.
C20_UndecodableBodyIsHarmless ==
    (Ended /\ call.response.text \in {EmptyText, GarbageText}) =>
        IF FailsWithStatus
        THEN outcome = ThrowsError("Error", Fallback(call.fn, call.response.status))
        ELSE outcome.state = "returned"

\* C21: every request of the API client carries the bearer token when a
\* session with a token exists; without one (or when fetching the session
\* fails) the request is still sent, without an Authorization header
C21_BearerTokenWhenSession ==
    Ended =>
        /\ request.sent
        /\ request.headers.Authorization =
              IF session = "idToken" THEN "Bearer idToken" ELSE ""

\* C22: there is no automatic retry.  A step sends at most one request
\* record (a selection sends its batch once), only a step of the user (or
\* the mount) sends one, and the step in which a handler gets its answer,
\* failed or not, sends nothing: a failed request is sent again only by a
\* new gesture.
C22_NoAutomaticRetry ==
    [][ /\ Cardinality(NewlySent) <= 1
        /\ sent' = sent + Cardinality(NewlySent)
        /\ NewlySent # {} => inflight \subseteq inflight'
        /\ \A r \in inflight : Delivered(r) => (NewlySent = {} /\ sent' = sent)
      ]_vars

\* a request has failed, its handler has reported the error, and nothing is
\* in flight
C22_Witness ==
    /\ Len(emitted) = 1 /\ emitted[1].type = "error"
    /\ sent > 0
    /\ inflight = {}

\* the callers of confirm() whose resolver is no longer in the dialog slot
Abandoned == awaiting - (IF dialog.isOpen THEN 1 ELSE 0)

\* C23: the confirmation flow has one pending slot.  A confirm() puts the
\* new request in the slot, also when one is pending, and resolves nothing;
\* accept and cancel resolve one promise, that of the request in the slot,
\* and the delete that follows an accept is the one of that request; a
\* request that was replaced is never resolved by a later accept or cancel.
C23_SingleSlotLatestWins ==
    [][ /\ awaiting' > awaiting =>
             /\ awaiting' = awaiting + 1
             /\ dialog'.isOpen
             /\ dialog'.listId \in Ids(lists)
             /\ dialog'.cLists = lists
             /\ dialog'.cSelected = selectedList
             /\ resolved' = <<>>
             /\ Abandoned' = awaiting
        /\ Len(resolved') <= 1
        /\ Len(resolved') = 1 =>
             /\ dialog.isOpen /\ ~dialog'.isOpen
             /\ awaiting' = awaiting - 1
        /\ \A r \in NewlySent :
             r.op = "deleteReadingList" =>
                 (r.listId = dialog.listId /\ r.cLists = dialog.cLists)
        /\ Abandoned' >= Abandoned
      ]_vars

\* a second confirm() has replaced a pending one, the request in the slot
\* has been resolved, and the caller of the first is still suspended
C23_Witness ==
    /\ awaiting = 1
    /\ ~dialog.isOpen
    /\ Len(resolved) = 1

\* C24: while the request of a removeBookFromList or of a deleteList is in
\* flight, the in-progress flag names its item (removingBookId is the book,
\* deletingListId is the list), so the control of that item is disabled,
\* also when a request for another item has been started in between.
C24_InProgressFlagIdentifiesItem ==
    \A r \in inflight :
        /\ r.op = "updateReadingList" => removingBookId = r.bookId
        /\ r.op = "deleteReadingList" => deletingListId = r.listId

\* no createReadingList and no deleteReadingList request is in flight
CreatesAndDeletesCompleted ==
    \A r \in inflight : r.op \notin {"createReadingList", "deleteReadingList"}

\* C25: once every create and delete in flight has completed, the cache and
\* the backend hold the same lists: every list whose creation succeeded and
\* that the backend still holds is cached (overlapping creates both remain,
\* a delete of another list does not drop it), and every cached list is one
\* the backend holds (a deleted list is not added again).
C25_CacheMatchesBackend ==
    CreatesAndDeletesCompleted =>
        /\ \A c \in created : InDb(c.id) => c.id \in Ids(lists)
        /\ Ids(lists) \subseteq Ids(db)

\* the bookIds a sequence of lists holds for the list with this identifier
\* (empty when it holds no such list)
BookIdsIn(ls, id) ==
    UNION {Range(ls[i].bookIds) : i \in {j \in 1..Len(ls) : ls[j].id = id}}

\* C26: once no removal is in flight, a book whose removal was reported
\* successful is neither in the bookIds the backend stores for its list nor
\* in the local bookIds of that list (cache entry and selected list), and
\* the selected list, its cache entry and the backend entry are the same.
C26_RemovedBookIsGone ==
    (\A r \in inflight : r.op # "updateReadingList") =>
        \A x \in removed :
            /\ x.bookId \notin BookIdsIn(db, x.listId)
            /\ x.bookId \notin BookIdsIn(lists, x.listId)
            /\ selectedList.id = x.listId =>
                  /\ x.bookId \notin Range(selectedList.bookIds)
                  /\ x.bookId \notin Range(listBooks)
                  /\ Range(selectedList.bookIds) = BookIdsIn(db, x.listId)
                  /\ Range(selectedList.bookIds) = BookIdsIn(lists, x.listId)

\* C27: while no list is selected (the books modal was closed or the
\* selected list was deleted), selectedList stays null and listBooks stays
\* empty in every step that is not a selectList; the completion of a
\* loadListBooks or of a removeBookFromList that was in flight when the
\* selection was cleared does not repopulate them.
C27_ClearedSelectionStaysCleared ==
    [][ (selectedList = NoList /\ listBooks = <<>> /\ ~isBooksModalOpen') =>
            (selectedList' = NoList /\ listBooks' = <<>>)
      ]_vars

\* C28: isLoadingBooks is true exactly while a batch of getBook requests is
\* in flight: true in every state in which one is, also when batches
\* overlap, and false once every batch has completed, with or without
\* success.
C28_SpinnerWhileBatchInFlight ==
    isLoadingBooks <=> (\E r \in inflight : r.op = "getBooks")

\* a useAuth call is made in this step
Calling(fn) == auth.state = "none" /\ auth'.fn = fn /\ auth'.state = "pending"

\* the awaited call is handed back to handleSubmit in this step
AuthReturned(fn, answer) == auth.fn = fn /\ auth.state = answer /\ auth' = NoAuth

\* C29: signup is called only when the form is valid (name, email and
\* password present and well-formed, password equal to confirmPassword) and
\* with the values of the form; the verification step is entered only by
\* the step in which a signup call has succeeded; confirmSignUp is called
\* only in the verification step with a code that is not blank; the success
\* notification is emitted only by the step in which confirmSignUp has
\* succeeded; a failed signup or verification leaves the step as it is,
\* clears isLoading and reports the error.
C29_SignupFlowIsGuarded ==
    [][ /\ Calling("signup") =>
             /\ ~signupPage.needsVerification
             /\ validateRequired(signupPage.name)
             /\ validateRequired(signupPage.email) /\ validateEmail(signupPage.email)
             /\ validateRequired(signupPage.password)
             /\ validatePassword(signupPage.password)
             /\ signupPage.password = signupPage.confirmPassword
             /\ auth'.email = signupPage.email
             /\ auth'.password = signupPage.password
             /\ auth'.name = signupPage.name
        /\ (signupPage'.needsVerification /\ ~signupPage.needsVerification) =>
             AuthReturned("signup", "ok")
        /\ Calling("confirmSignUp") =>
             /\ signupPage.needsVerification
             /\ Trim(signupPage.verificationCode) # <<>>
             /\ auth'.code = signupPage.verificationCode
        /\ (\E i \in 1..Len(notified') : notified'[i].type = "success") =>
             AuthReturned("confirmSignUp", "ok")
        /\ (AuthReturned("signup", "failed") \/ AuthReturned("confirmSignUp", "failed")) =>
             /\ signupPage'.needsVerification = signupPage.needsVerification
             /\ ~signupPage'.isLoading
             /\ notified' = handleApiError("failed")
             /\ navigation' = navigation
      ]_vars

\* the whole flow has been gone through: the account was created, the code
\* was verified, and the success notification is shown
C29_Witness ==
    /\ signupPage.needsVerification
    /\ ~signupPage.isLoading
    /\ notified = showSuccess("Email verified successfully! You can now login.")
    /\ navigation = "scheduled"

\* the text contains the query when the case of the letters is ignored
ContainsIgnoringCase(text, query) ==
    \E i \in 0..(Len(text) - Len(query)) :
        \A k \in 1..Len(query) : LowerCase(text[i + k]) = LowerCase(query[k])

\* the books the search query selects: all of them when it is blank
Searched(page) ==
    {book \in Range(page.books) :
        \/ \A i \in 1..Len(page.searchQuery) : page.searchQuery[i] = " "
        \/ ContainsIgnoringCase(book.title, page.searchQuery)
        \/ ContainsIgnoringCase(book.author, page.searchQuery)
        \/ ContainsIgnoringCase(book.genre, page.searchQuery)}

\* book a may stand before book b under the sort key
InOrder(a, b, sortValue) ==
    CASE sortValue = "title" -> localeCompare(a.title, b.title) <= 0
      [] sortValue = "author" -> localeCompare(a.author, b.author) <= 0
      [] sortValue = "rating" -> a.rating >= b.rating
      [] sortValue = "year" -> a.publishedYear >= b.publishedYear

\* filteredBooks is what the query selects from books, each book once, in
\* the order of the sort key
FilteredBooksAsSpecified(page) ==
    /\ Range(page.filteredBooks) = Searched(page)
    /\ Len(page.filteredBooks) = Cardinality(Searched(page))
    /\ Range(page.filteredBooks) \subseteq Range(page.books)
    /\ \A i, j \in 1..Len(page.filteredBooks) :
          i < j => InOrder(page.filteredBooks[i], page.filteredBooks[j], page.sortBy)

\* C30: after every load, search and sort, filteredBooks is exactly the
\* books whose title, author or genre contains the query without regard to
\* case (all books for a blank query), ordered by the sort key (title and
\* author ascending, rating and year descending); it is a sub-collection of
\* books, and books itself changes only when a load completes, never by a
\* search or a sort.
C30_FilteredBooksFollowSearchAndSort ==
    [][ /\ FilteredBooksAsSpecified(booksPage')
        /\ booksPage'.books # booksPage.books =>
              (fetching = "ok" /\ booksPage'.books = shelf)
      ]_vars

\* a search in another case than the titles' has left two of three loaded
\* books, shown by rating
C30_Witness ==
    /\ Len(booksPage.books) = 3
    /\ booksPage.searchQuery = <<"A", "B">>
    /\ booksPage.sortBy = "rating"
    /\ Len(booksPage.filteredBooks) = 2
    /\ booksPage.filteredBooks[1].rating > booksPage.filteredBooks[2].rating
    /\ booksPage.books[1].rating < booksPage.books[2].rating
====
